---- MODULE Spec2Model ----
(***************************************************************************)
(* Guest/host relevance scoring (ai_engine/relevance_scoring_engine.py),   *)
(* the tracker's host-analysis cache (ai_engine/podcast_guest_tracker.py)  *)
(* and the web entry point (ai_engine/web_app.py).                         *)
(*                                                                         *)
(* Python values are modelled as follows.  A str is a TLA+ string; a list  *)
(* is a sequence; a dict is a record whose DOMAIN is the set of keys that  *)
(* are present (social_following, which the code only iterates, is the     *)
(* sequence of its items in insertion order).  The value None is the       *)
(* string None where a str is expected, the sequence NoneList where a list *)
(* is expected and NoneDict where social_following is expected; no         *)
(* vocabulary contains them.  An operator that models a method returns the method's result *)
(* together with the guest profile and host analysis as the call leaves    *)
(* them, because the methods work on the caller's objects.                 *)
(***************************************************************************)
EXTENDS Integers, Sequences, FiniteSets, TLC

--------------------------------------------------------------------------
(* Strings *)

None == "<None>"
NoneList == <<"<None list>">>
NoneDict == << <<"<None dict>", "<None dict>">> >>

UpperCase == "ABCDEFGHIJKLMNOPQRSTUVWXYZ"
LowerCase == "abcdefghijklmnopqrstuvwxyz"
Digits == "0123456789"

CharAt(s, i) == SubSeq(s, i, i)

\* str.lower() of each upper-case letter
LowerOf ==
    [c \in {CharAt(UpperCase, i) : i \in 1..Len(UpperCase)} |->
        CharAt(LowerCase, CHOOSE i \in 1..Len(UpperCase) : CharAt(UpperCase, i) = c)]

\* str.lower() of one character
LowerChar(c) == IF c \in DOMAIN LowerOf THEN LowerOf[c] ELSE c

RECURSIVE lower(_)
\* str.lower()
lower(s) ==
    IF s = "" THEN "" ELSE LowerChar(CharAt(s, 1)) \o lower(SubSeq(s, 2, Len(s)))

\* Python's  sub in s  for two str
Contains(s, sub) ==
    \E i \in 1..(Len(s) - Len(sub) + 1) : SubSeq(s, i, i + Len(sub) - 1) = sub

RECURSIVE join(_, _)
\* sep.join(list)
join(sep, list) ==
    IF list = <<>> THEN ""
    ELSE IF Len(list) = 1 THEN list[1]
    ELSE list[1] \o sep \o join(sep, Tail(list))

RECURSIVE str(_)
\* str(n) / f"{n}" of a non-negative int
str(n) ==
    IF n < 10 THEN CharAt(Digits, n + 1)
    ELSE str(n \div 10) \o CharAt(Digits, (n % 10) + 1)

\* Python truthiness of a str-or-None value
Truthy(s) == s # None /\ s # ""

Min(a, b) == IF a < b THEN a ELSE b
Max(a, b) == IF a > b THEN a ELSE b

\* list[:n]
Take(list, n) == SubSeq(list, 1, Min(n, Len(list)))

\* dict.get(key, default)
Get(d, key, default) == IF key \in DOMAIN d THEN d[key] ELSE default

RECURSIVE LowerTruthy(_)
\* [topic.lower() for topic in list if topic]
LowerTruthy(list) ==
    IF list = <<>> THEN <<>>
    ELSE IF Truthy(Head(list)) THEN <<lower(Head(list))>> \o LowerTruthy(Tail(list))
    ELSE LowerTruthy(Tail(list))

\* any(k in s for k in keywords)
AnyIn(keywords, s) == \E i \in 1..Len(keywords) : Contains(s, keywords[i])

\* f"{s}" of a str-or-None value
Format(s) == IF s = None THEN "None" ELSE s

\* the record a raised exception is reported as
Raised(kind) == [raised |-> kind]

IsRaised(r) == "raised" \in DOMAIN r

--------------------------------------------------------------------------
(* GuestRelevanceScorer.__init__: the weights, in hundredths.  The code    *)
(* holds 0.35, 0.25, 0.20, 0.10, 0.10 as doubles and sums score*weight in  *)
(* double arithmetic; for every combination of integer scores 0..100 that  *)
(* the scorers produce, truncating that double sum gives the same integer  *)
(* as the exact quotient below, so the sum is carried in hundredths.       *)

scoring_weights_Rebalanced ==
    [topic_alignment |-> 40, authority_score |-> 20, audience_appeal |-> 20,
     uniqueness_factor |-> 10, engagement_potential |-> 10]

scoring_weights ==
    [topic_alignment |-> 35, authority_score |-> 25, audience_appeal |-> 20,
     uniqueness_factor |-> 10, engagement_potential |-> 10]

--------------------------------------------------------------------------
(* calculate_topic_alignment_score *)

\* lines 29-30: guest_topics = guest_profile.get('expertise_areas', [])
\* followed by guest_topics.extend(guest_profile.get('potential_interview_topics', [])).
\* The list under 'expertise_areas' is extended in place when the key is
\* present; a fresh list is extended when it is absent.
GuestTopicsStep(guest_profile) ==
    LET guest_topics == Get(guest_profile, "expertise_areas", <<>>)
        more == Get(guest_profile, "potential_interview_topics", <<>>)
    IN  IF guest_topics = NoneList
        THEN [raised |-> "AttributeError", guest |-> guest_profile, topics |-> <<>>]
        ELSE IF more = NoneList
        THEN [raised |-> "TypeError", guest |-> guest_profile, topics |-> <<>>]
        ELSE [raised |-> "",
              guest |-> IF "expertise_areas" \in DOMAIN guest_profile
                        THEN [guest_profile EXCEPT !.expertise_areas = guest_topics \o more]
                        ELSE guest_profile,
              topics |-> guest_topics \o more]

\* lines 33-35: the dict the host topics are read from
UnwrapChannelDna(host_analysis) ==
    LET channel_dna == Get(host_analysis, "channel_dna", [x \in {} |-> x])
    IN  IF "channel_dna" \in DOMAIN channel_dna THEN channel_dna.channel_dna
        ELSE channel_dna

\* whether line 35 took the inner dict
IsNested(host_analysis) ==
    "channel_dna" \in DOMAIN Get(host_analysis, "channel_dna", [x \in {} |-> x])

\* lines 33-38: host_topics = channel_dna.get('primary_topics', []) followed by
\* host_topics.extend(channel_dna.get('success_patterns', {}).get('high_performing_topics', [])).
\* The list under 'primary_topics' is extended in place when the key is present.
HostTopicsStep(host_analysis) ==
    LET channel_dna == UnwrapChannelDna(host_analysis)
        host_topics == Get(channel_dna, "primary_topics", <<>>)
        more == Get(Get(channel_dna, "success_patterns", [x \in {} |-> x]),
                    "high_performing_topics", <<>>)
        extended == host_topics \o more
    IN  IF host_topics = NoneList
        THEN [raised |-> "AttributeError", host |-> host_analysis, topics |-> <<>>]
        ELSE IF more = NoneList
        THEN [raised |-> "TypeError", host |-> host_analysis, topics |-> <<>>]
        ELSE [raised |-> "",
              host |-> IF "primary_topics" \notin DOMAIN channel_dna THEN host_analysis
                       ELSE IF IsNested(host_analysis)
                       THEN [host_analysis EXCEPT !.channel_dna.channel_dna.primary_topics = extended]
                       ELSE [host_analysis EXCEPT !.channel_dna.primary_topics = extended],
              topics |-> extended]

RECURSIVE PairsWith(_, _)
\* inner loop of lines 54-57 for one guest topic
PairsWith(guest_topic, host_topics_lower) ==
    IF host_topics_lower = <<>> THEN <<>>
    ELSE LET host_topic == Head(host_topics_lower)
             rest == PairsWith(guest_topic, Tail(host_topics_lower))
         IN  IF Contains(host_topic, guest_topic) \/ Contains(guest_topic, host_topic)
             THEN <<(<<guest_topic, host_topic>>)>> \o rest
             ELSE rest

RECURSIVE FindMatches(_, _)
\* lines 53-57
FindMatches(guest_topics_lower, host_topics_lower) ==
    IF guest_topics_lower = <<>> THEN <<>>
    ELSE PairsWith(Head(guest_topics_lower), host_topics_lower)
         \o FindMatches(Tail(guest_topics_lower), host_topics_lower)

--------------------------------------------------------------------------
(* Python floats.  A float is written as a natural number n over a power   *)
(* of the base, n / Base^s, with n held as its digits in that base from    *)
(* the lowest up.  n has at most 53 significant binary digits (IEEE 754    *)
(* binary64); every operation rounds to nearest, ties to even.             *)

\* the binary digits of the significand
SignificandBits == 53

\* the binary digits of one digit of n
DigitBits == 15

Base == 2^DigitBits

\* the digits of the quotient worked out before a division is rounded
QuotientDigits == 6

\* digit i of n
Digit(n, i) == IF i >= 1 /\ i <= Len(n) THEN n[i] ELSE 0

\* binary digit p of n, counted from 0
Bit(n, p) == (Digit(n, p \div DigitBits + 1) \div 2^(p % DigitBits)) % 2

\* the number of binary digits of n
BitLen(n) ==
    LET used == {i \in 1..Len(n) : n[i] # 0}
    IN  IF used = {} THEN 0
        ELSE LET top == CHOOSE i \in used : \A j \in used : j <= i
             IN  (top - 1) * DigitBits + (CHOOSE b \in 1..DigitBits : 2^(b - 1) <= n[top] /\ n[top] < 2^b)

\* the carry into digit i of a + b: that of the nearest lower digit where
\* the digits of a and b do not add up to Base - 1
CarryInto(a, b, i) ==
    LET decided == {j \in 1..(i - 1) : Digit(a, j) + Digit(b, j) # Base - 1}
    IN  IF decided = {} THEN 0
        ELSE LET j == CHOOSE j \in decided : \A k \in decided : k <= j
             IN  IF Digit(a, j) + Digit(b, j) >= Base THEN 1 ELSE 0

\* a + b
Add(a, b) ==
    [i \in 1..(Max(Len(a), Len(b)) + 1) |-> (Digit(a, i) + Digit(b, i) + CarryInto(a, b, i)) % Base]

\* n * k for a natural number k below Base
Mul(n, k) ==
    Add([i \in 1..Len(n) |-> (n[i] * k) % Base],
        [i \in 1..(Len(n) + 1) |-> IF i = 1 THEN 0 ELSE (n[i - 1] * k) \div Base])

\* 2^p
PowerOfTwo(p) ==
    [i \in 1..(p \div DigitBits + 1) |-> IF i = p \div DigitBits + 1 THEN 2^(p % DigitBits) ELSE 0]

\* n with its binary digits below p cleared
ClearBelow(n, p) ==
    [i \in 1..Len(n) |->
        IF i < p \div DigitBits + 1 THEN 0
        ELSE IF i = p \div DigitBits + 1 THEN n[i] - (n[i] % 2^(p % DigitBits))
        ELSE n[i]]

\* n rounded to SignificandBits binary digits, ties going to the even
\* significand
Rounded(n) ==
    LET drop == BitLen(n) - SignificandBits
    IN  IF drop <= 0 THEN n
        ELSE LET guard == Bit(n, drop - 1)
                 sticky == \E p \in 0..(drop - 2) : Bit(n, p) = 1
                 up == guard = 1 /\ (sticky \/ Bit(n, drop) = 1)
                 kept == ClearBelow(n, drop)
             IN  (IF up THEN Add(kept, PowerOfTwo(drop)) ELSE kept) \o <<>>

\* the float nearest to n / Base^s
RoundToFloat(n, s) == CHOOSE x \in {[n |-> Rounded(digits), s |-> s] : digits \in {n \o <<>>}} : TRUE

RECURSIVE Remainder(_, _, _)
\* r * Base^j modulo d, for d below 2^16
Remainder(r, d, j) ==
    IF j = 0 THEN r % d ELSE (Remainder(r, d, j - 1) * Base) % d

\* a / b for ints a >= 0, b > 0 (true division): the quotient to
\* QuotientDigits digits after the point, one more digit standing for a
\* remainder left over, rounded
FloatDiv(a, b) ==
    RoundToFloat([i \in 1..(QuotientDigits + 2) |->
                     IF i = 1 THEN (IF Remainder(a, b, QuotientDigits) = 0 THEN 0 ELSE 1)
                     ELSE IF i = QuotientDigits + 2 THEN a \div b
                     ELSE (Remainder(a, b, QuotientDigits + 1 - i) * Base) \div b],
                 QuotientDigits + 1)

\* x * k for a float x and an int k >= 0
FloatMul(x, k) == RoundToFloat(Mul(x.n, k), x.s)

\* x + k for a float x and an int k >= 0
FloatAdd(x, k) == RoundToFloat(Add(x.n, [i \in 1..(x.s + 1) |-> IF i = x.s + 1 THEN k ELSE 0]), x.s)

\* int(x) for a float x >= 0
FloatInt(x) == Digit(x.n, x.s + 1) + Base * Digit(x.n, x.s + 2)

\* min(x, k) for a float x and an int k
FloatMin(x, k) == IF FloatInt(x) >= k THEN [n |-> <<k>>, s |-> 0] ELSE x

\* lines 60-69 on the counts: match_ratio = matches / denominator,
\* base_score = min(match_ratio * 100, 100), the boost of 10 per exact match
\* and int(base_score)
FloatTopicScore(matches, denominator, exact_matches) ==
    LET match_ratio == FloatDiv(matches, denominator)
        base_score == FloatMin(FloatMul(match_ratio, 100), 100)
    IN  IF exact_matches > 0
        THEN FloatInt(FloatMin(FloatAdd(base_score, exact_matches * 10), 100))
        ELSE FloatInt(base_score)

\* FloatTopicScore for the counts that lists of up to guest_terms and
\* host_terms terms give, worked out once
ScoreTable(guest_terms, host_terms) ==
    [t \in (0..(guest_terms * host_terms)) \X (1..Max(guest_terms, host_terms)) \X (0..(guest_terms * host_terms)) |->
        FloatTopicScore(t[1], t[2], t[3])]

\* the longest lists of expertise areas, interview topics, primary topics and
\* high-performing topics drawn as inputs
MaxAreas == 2
MaxInterview == 1
MaxPrimary == 1
MaxHigh == 1

\* the topic scores of lists within these lengths
TopicScoreTable == ScoreTable(MaxAreas + MaxInterview, MaxPrimary + MaxHigh)

TopicScore_Uncapped(matches, denominator) ==
    (Len(matches) * 100) \div denominator
    + 10 * Cardinality({i \in 1..Len(matches) : matches[i][1] = matches[i][2]})

\* lines 60-69
TopicScore(matches, denominator) ==
    LET exact_matches == Cardinality({i \in 1..Len(matches) : matches[i][1] = matches[i][2]})
    IN  IF <<Len(matches), denominator, exact_matches>> \in DOMAIN TopicScoreTable
        THEN TopicScoreTable[<<Len(matches), denominator, exact_matches>>]
        ELSE FloatTopicScore(Len(matches), denominator, exact_matches)

\* lines 44-73, from the two lower-cased term lists
TopicFromLower(guest_topics_lower, host_topics_lower) ==
    LET matches == FindMatches(guest_topics_lower, host_topics_lower)
    IN  IF guest_topics_lower = <<>> \/ host_topics_lower = <<>>
        THEN [score |-> 50,
              reasoning |-> "Insufficient topic data for comparison",
              topic_matches |-> <<>>,
              weight |-> scoring_weights.topic_alignment]
        ELSE [score |-> TopicScore(matches,
                                   Max(Len(guest_topics_lower), Len(host_topics_lower))),
              reasoning |-> "Found " \o str(Len(matches)) \o " topic alignments out of "
                            \o str(Len(guest_topics_lower)) \o " guest topics",
              topic_matches |-> Take(matches, 5),
              weight |-> scoring_weights.topic_alignment]

\* lines 41-73, from the two term lists
TopicResult(guest_topics, host_topics) ==
    TopicFromLower(LowerTruthy(guest_topics), LowerTruthy(host_topics))

calculate_topic_alignment_score(guest_profile, host_analysis) ==
    LET gs == GuestTopicsStep(guest_profile)
        hs == HostTopicsStep(host_analysis)
    IN  IF gs.raised # ""
        THEN [result |-> Raised(gs.raised), guest |-> gs.guest, host |-> host_analysis]
        ELSE IF hs.raised # ""
        THEN [result |-> Raised(hs.raised), guest |-> gs.guest, host |-> hs.host]
        ELSE [result |-> TopicResult(gs.topics, hs.topics),
              guest |-> gs.guest, host |-> hs.host]

--------------------------------------------------------------------------
(* calculate_authority_score *)

high_value_indicators == <<"phd", "ceo", "founder", "author", "professor", "expert">>

AuthorityBase_UnknownAsLow(authority_level) ==
    IF authority_level = "HIGH" THEN 90
    ELSE IF authority_level = "MEDIUM" THEN 65
    ELSE 40

\* line 82-89
AuthorityBase(authority_level) ==
    IF authority_level = "HIGH" THEN 90
    ELSE IF authority_level = "MEDIUM" THEN 65
    ELSE IF authority_level = "LOW" THEN 40
    ELSE 50

calculate_authority_score(guest_profile) ==
    LET authority_level == Get(guest_profile, "estimated_authority_level", "UNKNOWN")
        authority_indicators == Get(guest_profile, "authority_indicators", <<>>)
        base_score == AuthorityBase(authority_level)
        indicator_boost == Min(Len(authority_indicators) * 5, 20)
        \* lines 96-99: the loop stops at the first indicator that matches, and
        \* calls .lower() on every indicator up to it
        firstHit == IF \E i \in 1..Len(authority_indicators) :
                          authority_indicators[i] # None
                          /\ AnyIn(high_value_indicators, lower(authority_indicators[i]))
                    THEN CHOOSE i \in 1..Len(authority_indicators) :
                          /\ authority_indicators[i] # None
                          /\ AnyIn(high_value_indicators, lower(authority_indicators[i]))
                          /\ \A j \in 1..(i - 1) :
                                authority_indicators[j] = None
                                \/ ~AnyIn(high_value_indicators, lower(authority_indicators[j]))
                    ELSE Len(authority_indicators) + 1
        final_score == Min(base_score + indicator_boost
                           + (IF firstHit <= Len(authority_indicators) THEN 10 ELSE 0), 100)
    IN  IF authority_indicators = NoneList
        THEN Raised("TypeError")
        ELSE IF \E j \in 1..Min(firstHit, Len(authority_indicators)) :
                    authority_indicators[j] = None
        THEN Raised("AttributeError")
        ELSE [score |-> final_score,
              reasoning |-> "Authority level: " \o Format(authority_level) \o ", "
                            \o str(Len(authority_indicators)) \o " indicators",
              authority_indicators |-> Take(authority_indicators, 3),
              weight |-> scoring_weights.authority_score]

--------------------------------------------------------------------------
(* calculate_audience_appeal_score *)

high_appeal_roles == <<"ceo", "founder", "celebrity", "author", "influencer">>

\* lines 123-133: industry_appeal.get(guest_industry.lower(), 60)
IndustryAppeal(industry_lower) ==
    IF industry_lower = "technology" THEN 85
    ELSE IF industry_lower = "business" THEN 80
    ELSE IF industry_lower = "entertainment" THEN 90
    ELSE IF industry_lower = "education" THEN 70
    ELSE IF industry_lower = "healthcare" THEN 65
    ELSE IF industry_lower = "finance" THEN 75
    ELSE 60

ViewsAdjustment_Inclusive(avg_views) ==
    IF avg_views >= 100000 THEN 5
    ELSE IF avg_views <= 10000 THEN -5
    ELSE 0

ViewsAdjustment_Steeper(avg_views) ==
    IF avg_views > 100000 THEN 5
    ELSE IF avg_views < 10000 THEN -10
    ELSE 0

\* lines 141-144
ViewsAdjustment(avg_views) ==
    IF avg_views > 100000 THEN 5
    ELSE IF avg_views < 10000 THEN -5
    ELSE 0

calculate_audience_appeal_score(guest_profile, host_analysis) ==
    LET performance_metrics == Get(host_analysis, "performance_metrics", [x \in {} |-> x])
        avg_views == Get(performance_metrics, "average_views", 0)
        guest_industry == Get(guest_profile, "industry", "Unknown")
        guest_designation == Get(guest_profile, "current_designation", "Unknown")
        base_score == IndustryAppeal(lower(guest_industry))
                      + (IF AnyIn(high_appeal_roles, lower(guest_designation)) THEN 15 ELSE 0)
                      + ViewsAdjustment(avg_views)
        final_score == Min(Max(base_score, 0), 100)
    IN  IF guest_industry = None \/ guest_designation = None
        THEN Raised("AttributeError")
        ELSE [score |-> final_score,
              reasoning |-> "Industry: " \o guest_industry \o ", Role: " \o guest_designation,
              appeal_factors |-> <<guest_industry, guest_designation>>,
              weight |-> scoring_weights.audience_appeal]

--------------------------------------------------------------------------
(* calculate_uniqueness_score *)

niche_fields == <<"ai", "blockchain", "quantum", "biotech", "space", "robotics">>

\* lines 168-170: the boost for a niche field among the expertise areas
NicheBoost(expertise_areas) ==
    IF AnyIn(niche_fields, lower(join(" ", expertise_areas))) THEN 20 ELSE 0

\* lines 172-174: the boost for three or more expertise areas
WideBoost(expertise_areas) ==
    IF Len(expertise_areas) >= 3 THEN 10 ELSE 0

\* lines 165 and 176-183, from the two boosts, the len() of line 180 and the
\* slice of line 181
UniquenessResult(niche_boost, wide_boost, areas_count, uniqueness_factors, industry) ==
    LET base_score == 70 + niche_boost + wide_boost
        final_score == Min(base_score, 100)
    IN  [score |-> final_score,
         reasoning |-> "Expertise in " \o str(areas_count)
                       \o " areas, industry: " \o Format(industry),
         uniqueness_factors |-> uniqueness_factors,
         weight |-> scoring_weights.uniqueness_factor]

calculate_uniqueness_score(guest_profile) ==
    LET expertise_areas == Get(guest_profile, "expertise_areas", <<>>)
        industry == Get(guest_profile, "industry", "Unknown")
    IN  IF expertise_areas = NoneList
           \/ \E i \in 1..Len(expertise_areas) : expertise_areas[i] = None
        THEN Raised("TypeError")
        ELSE UniquenessResult(NicheBoost(expertise_areas), WideBoost(expertise_areas),
                              Len(expertise_areas), Take(expertise_areas, 3), industry)

--------------------------------------------------------------------------
(* calculate_engagement_potential_score *)

high_engagement_topics == <<"politics", "technology", "business", "controversy", "innovation">>

RECURSIVE OnlyDigits(_)
\* re.sub(r'[^\d]', '', s)
OnlyDigits(s) ==
    IF s = "" THEN ""
    ELSE (IF Contains(Digits, CharAt(s, 1)) THEN CharAt(s, 1) ELSE "")
         \o OnlyDigits(SubSeq(s, 2, Len(s)))

DigitValue(c) == (CHOOSE i \in 1..Len(Digits) : CharAt(Digits, i) = c) - 1

RECURSIVE int(_)
\* int(s) of a non-empty string of digits
int(s) ==
    IF Len(s) = 1 THEN DigitValue(s)
    ELSE int(SubSeq(s, 1, Len(s) - 1)) * 10 + DigitValue(CharAt(s, Len(s)))

FollowerBoost_Inclusive(followers) ==
    IF ~(Truthy(followers) /\ followers # "unknown") THEN 0
    ELSE LET digits == OnlyDigits(followers)
         IN  IF digits = "" THEN 5
             ELSE IF int(digits) >= 100000 THEN 15
             ELSE IF int(digits) >= 10000 THEN 10
             ELSE IF int(digits) >= 1000 THEN 5
             ELSE 0

\* lines 201-212, for one platform's follower value
FollowerBoost(followers) ==
    IF ~(Truthy(followers) /\ followers # "unknown") THEN 0
    ELSE LET digits == OnlyDigits(followers)
         IN  IF digits = "" THEN 5        \* int('') raises ValueError: the except branch
             ELSE IF int(digits) > 100000 THEN 15
             ELSE IF int(digits) > 10000 THEN 10
             ELSE IF int(digits) > 1000 THEN 5
             ELSE 0

RECURSIVE SocialBoost(_)
\* lines 199-212: social_following is the sequence of (platform, followers) items
SocialBoost(social_following) ==
    IF social_following = <<>> THEN 0
    ELSE FollowerBoost(Head(social_following)[2]) + SocialBoost(Tail(social_following))

\* line 196
TopicBoost(guest_topics) ==
    5 * Cardinality({i \in 1..Len(guest_topics) :
                        AnyIn(high_engagement_topics, lower(guest_topics[i]))})

calculate_engagement_potential_score(guest_profile, host_analysis) ==
    LET guest_topics == Get(guest_profile, "potential_interview_topics", <<>>)
        social_following == Get(guest_profile, "social_following", <<>>)
        final_score == Min(60 + TopicBoost(guest_topics) + SocialBoost(social_following), 100)
    IN  IF guest_topics = NoneList
        THEN Raised("TypeError")
        ELSE IF \E i \in 1..Len(guest_topics) : guest_topics[i] = None
        THEN Raised("AttributeError")
        ELSE IF social_following = NoneDict
        THEN Raised("AttributeError")
        ELSE [score |-> final_score,
              reasoning |-> "Topic engagement potential + social presence",
              engagement_factors |-> Take(guest_topics, 3),
              weight |-> scoring_weights.engagement_potential]

--------------------------------------------------------------------------
(* calculate_overall_relevance_score *)

\* lines 236-242, in hundredths (score * weight summed over the five factors)
WeightedSum(topic_score, authority_score, audience_score, uniqueness_score, engagement_score) ==
    topic_score.score * topic_score.weight
    + authority_score.score * authority_score.weight
    + audience_score.score * audience_score.weight
    + uniqueness_score.score * uniqueness_score.weight
    + engagement_score.score * engagement_score.weight

Recommend_OnRounded(overall_score) ==
    LET rounded == (overall_score + 50) \div 100
    IN  IF rounded >= 80 THEN [recommendation |-> "HIGHLY_RECOMMENDED", confidence |-> "HIGH"]
        ELSE IF rounded >= 65 THEN [recommendation |-> "RECOMMENDED", confidence |-> "MEDIUM"]
        ELSE IF rounded >= 50 THEN [recommendation |-> "CONSIDER", confidence |-> "MEDIUM"]
        ELSE IF rounded >= 35 THEN [recommendation |-> "LOW_PRIORITY", confidence |-> "LOW"]
        ELSE [recommendation |-> "NOT_RECOMMENDED", confidence |-> "HIGH"]

\* lines 245-259, on the untruncated sum (in hundredths)
Recommend(overall_score) ==
    IF overall_score >= 8000 THEN [recommendation |-> "HIGHLY_RECOMMENDED", confidence |-> "HIGH"]
    ELSE IF overall_score >= 6500 THEN [recommendation |-> "RECOMMENDED", confidence |-> "MEDIUM"]
    ELSE IF overall_score >= 5000 THEN [recommendation |-> "CONSIDER", confidence |-> "MEDIUM"]
    ELSE IF overall_score >= 3500 THEN [recommendation |-> "LOW_PRIORITY", confidence |-> "LOW"]
    ELSE [recommendation |-> "NOT_RECOMMENDED", confidence |-> "HIGH"]

Truncate_Rounds(overall_score) == (overall_score + 50) \div 100

\* line 275: int(overall_score), the sum being in hundredths
Truncate(overall_score) == overall_score \div 100

RECURSIVE InsertDesc(_, _)
\* one step of the stable descending sort: x goes after every entry whose
\* score is not below its own
InsertDesc(sorted, x) ==
    IF sorted = <<>> THEN <<x>>
    ELSE IF Head(sorted)[2] >= x[2] THEN <<Head(sorted)>> \o InsertDesc(Tail(sorted), x)
    ELSE <<x>> \o sorted

RECURSIVE SortDesc(_, _)
\* line 270: scores_list.sort(key=lambda x: x[1], reverse=True), which keeps
\* the original order of entries with equal scores
SortDesc(sorted, list) ==
    IF list = <<>> THEN sorted
    ELSE SortDesc(InsertDesc(sorted, Head(list)), Tail(list))

\* f"{name}: {score}/100"
ScoreLine(entry) == entry[1] \o ": " \o str(entry[2]) \o "/100"

RECURSIVE LinesWhere_Inclusive(_, _, _)
LinesWhere_Inclusive(list, lo, hi) ==
    IF list = <<>> THEN <<>>
    ELSE (IF lo <= Head(list)[2] /\ Head(list)[2] <= hi THEN <<ScoreLine(Head(list))>> ELSE <<>>)
         \o LinesWhere_Inclusive(Tail(list), lo, hi)

RECURSIVE LinesWhere(_, _, _)
\* [f"{name}: {score}/100" for name, score in list if lo <= score < hi]
LinesWhere(list, lo, hi) ==
    IF list = <<>> THEN <<>>
    ELSE (IF lo <= Head(list)[2] /\ Head(list)[2] < hi THEN <<ScoreLine(Head(list))>> ELSE <<>>)
         \o LinesWhere(Tail(list), lo, hi)

\* lines 235-289, from the five factor results
Aggregate(topic_score, authority_score, audience_score, uniqueness_score, engagement_score, timestamp) ==
    LET overall_score == WeightedSum(topic_score, authority_score, audience_score,
                                     uniqueness_score, engagement_score)
        scores_list == SortDesc(<<>>, << <<"Topic Alignment", topic_score.score>>,
                                         <<"Authority", authority_score.score>>,
                                         <<"Audience Appeal", audience_score.score>>,
                                         <<"Uniqueness", uniqueness_score.score>>,
                                         <<"Engagement Potential", engagement_score.score>> >>)
    IN  [overall_relevance_score |-> Truncate(overall_score),
         recommendation |-> Recommend(overall_score).recommendation,
         confidence_level |-> Recommend(overall_score).confidence,
         score_breakdown |-> [topic_alignment |-> topic_score,
                              authority_score |-> authority_score,
                              audience_appeal |-> audience_score,
                              uniqueness_factor |-> uniqueness_score,
                              engagement_potential |-> engagement_score],
         key_strengths |-> LinesWhere(Take(scores_list, 2), 70, 101),
         areas_of_concern |-> LinesWhere(scores_list, 0, 50),
         scoring_weights |-> scoring_weights,
         analysis_timestamp |-> timestamp]

\* lines 229-233: the five scorers run in this order on the caller's two
\* objects; the first one that raises ends the call
calculate_overall_relevance_score(guest_profile, host_analysis, timestamp) ==
    LET t == calculate_topic_alignment_score(guest_profile, host_analysis)
        authority_score == calculate_authority_score(t.guest)
        audience_score == calculate_audience_appeal_score(t.guest, t.host)
        uniqueness_score == calculate_uniqueness_score(t.guest)
        engagement_score == calculate_engagement_potential_score(t.guest, t.host)
        result ==
            IF IsRaised(t.result) THEN t.result
            ELSE IF IsRaised(authority_score) THEN authority_score
            ELSE IF IsRaised(audience_score) THEN audience_score
            ELSE IF IsRaised(uniqueness_score) THEN uniqueness_score
            ELSE IF IsRaised(engagement_score) THEN engagement_score
            ELSE Aggregate(t.result, authority_score, audience_score, uniqueness_score,
                           engagement_score, timestamp)
    IN  [result |-> result, guest |-> t.guest, host |-> t.host]

--------------------------------------------------------------------------
(* OllamaClient (ollama_client.py) and call_llm_for_scoring_validation.    *)
(* What one requests.post of line 37 meets is an outcome: a response with  *)
(* a status code and a body, or an exception (connection refused, the      *)
(* timeout of 300 seconds).  A body is a JSON object, given as a record,   *)
(* or text that is not JSON.                                               *)

\* ollama_client.py, lines 15-16
max_retries == 3
retry_delay == 5

NotJson == [unparsable |-> "<html>"]

\* lines 57-61
Unavailable ==
    [generated_text |-> "LLM analysis temporarily unavailable.",
     model |-> "llama3.1:8b",
     error |-> "All retry attempts failed"]

\* lines 37-44: what one attempt returns, or "failed" when it ends in the
\* else branch of line 45 or in the except branch of line 51.  response.json()
\* of line 40 is inside the try and raises on a body that is not JSON.
AttemptReturns(outcome) ==
    IF outcome.kind = "response" /\ outcome.status_code = 200 /\ outcome.body # NotJson
    THEN [generated_text |-> Get(outcome.body, "response", ""), model |-> "llama3.1:8b"]
    ELSE [failed |-> outcome.kind]

AttemptFailed(outcome) == "failed" \in DOMAIN AttemptReturns(outcome)

\* relevance_scoring_engine.py, lines 294-301: the parts of the prompt, built
\* before the try of line 328
ValidationPrompt(relevance_analysis, guest_profile, host_analysis) ==
    LET expertise_areas == Get(guest_profile, "expertise_areas", <<"Unknown">>)
        outer == Get(host_analysis, "channel_dna", [x \in {} |-> x])
        inner == Get(outer, "channel_dna", [x \in {} |-> x])
        channel_topics == Get(inner, "primary_topics", <<"Unknown">>)
    IN  IF expertise_areas = NoneList THEN Raised("TypeError")
        ELSE IF \E i \in 1..Len(Take(expertise_areas, 3)) : expertise_areas[i] = None
        THEN Raised("TypeError")
        ELSE IF channel_topics = NoneList THEN Raised("TypeError")
        ELSE IF \E i \in 1..Len(Take(channel_topics, 3)) : channel_topics[i] = None
        THEN Raised("TypeError")
        ELSE [overall_score |-> Get(relevance_analysis, "overall_relevance_score", 0),
              recommendation |-> Get(relevance_analysis, "recommendation", "UNKNOWN"),
              guest_expertise |-> join(", ", Take(expertise_areas, 3)),
              channel_topics_str |-> join(", ", Take(channel_topics, 3))]

\* lines 291-332, response being what generate_text returned
call_llm_for_scoring_validation(relevance_analysis, guest_profile, host_analysis, response) ==
    IF IsRaised(ValidationPrompt(relevance_analysis, guest_profile, host_analysis))
    THEN ValidationPrompt(relevance_analysis, guest_profile, host_analysis)
    ELSE Get(response, "generated_text", "Validation analysis failed")

--------------------------------------------------------------------------
(* OneClickPodcastGuestTracker.analyze_podcast_guest_complete              *)

\* line 80: the age in seconds below which a cached analysis is used
TTL == 86400

\* get_channel_videos_with_ytdlp found no videos
NoVideos == [videos |-> 0]

\* d with key k set to v
Put(d, k, v) == [x \in DOMAIN d \cup {k} |-> IF x = k THEN v ELSE d[x]]

\* host_channel_analyzer.py, lines 229-289
analyze_host_channel(channel_url, findings, timestamp) ==
    IF findings = NoVideos
    THEN [error |-> "Could not fetch videos from channel",
          channel_url |-> channel_url,
          analysis_timestamp |-> timestamp]
    ELSE [channel_url |-> channel_url,
          analysis_timestamp |-> timestamp,
          performance_metrics |-> findings.performance_metrics,
          channel_dna |-> findings.channel_dna]

--------------------------------------------------------------------------
(* calculate_statistics (host_channel_analyzer.py, lines 128-147).  An     *)
(* entry of numbers is None or a number with one decimal, held in tenths:  *)
(* view, like and comment counts are whole, durations need not be.  A      *)
(* whole entry behaves as the float of the same value: the sums are exact  *)
(* and int / int is rounded as float / float is.                           *)

\* x + y for two floats x, y >= 0 of one scale
FloatPlus(x, y) == CHOOSE z \in {RoundToFloat(Add(a, b), x.s) : a \in {x.n}, b \in {y.n}} : TRUE

RECURSIVE Carried(_, _, _)
\* what the digits of n from digit i up leave over when divided by k
Carried(n, k, i) == IF i > Len(n) THEN 0 ELSE (Carried(n, k, i + 1) * Base + n[i]) % k

\* n / k for 0 < k < Base: the quotient digit by digit, its lowest binary
\* digit standing for a remainder left over
Quotient(n, k) ==
    LET carried == [i \in 1..(Len(n) + 1) |-> Carried(n, k, i)] \o <<>>
    IN  [i \in 1..Len(n) |->
            LET digit == (carried[i + 1] * Base + n[i]) \div k
            IN  IF i = 1 /\ carried[1] # 0 /\ digit % 2 = 0 THEN digit + 1 ELSE digit]

\* x / k for a float x >= 0 and an int k, 0 < k < Base
FloatOver(x, k) == CHOOSE q \in {RoundToFloat(Quotient(n, k), x.s) : n \in {x.n}} : TRUE

\* x <= y for two floats of one scale
FloatLeq(x, y) ==
    \E a \in {x.n} : \E b \in {y.n} :
        LET differing == {i \in 1..Max(Len(a), Len(b)) : Digit(a, i) # Digit(b, i)}
        IN  \/ differing = {}
            \/ LET top == CHOOSE i \in differing : \A j \in differing : j <= i
               IN  Digit(a, top) < Digit(b, top)

\* the float of an entry
FloatOf(entry) == FloatDiv(entry.tenths, 10)

\* the 0 of lines 131 and 135
Zero == FloatDiv(0, 10)

RECURSIVE SumTo(_, _)
\* sum(numbers) of line 137 up to entry i, added from the left
SumTo(numbers, i) ==
    IF i = 1 THEN FloatOf(numbers[1])
    ELSE CHOOSE total \in {FloatPlus(before, FloatOf(numbers[i])) : before \in {SumTo(numbers, i - 1)}} : TRUE

RECURSIVE InsertAsc(_, _)
InsertAsc(sorted, x) ==
    IF sorted = <<>> THEN <<x>>
    ELSE IF Head(sorted).tenths <= x.tenths THEN <<Head(sorted)>> \o InsertAsc(Tail(sorted), x)
    ELSE <<x>> \o sorted

RECURSIVE SortAsc(_, _)
\* sorted(numbers) of line 138
SortAsc(sorted, list) ==
    IF list = <<>> THEN sorted ELSE SortAsc(InsertAsc(sorted, Head(list)), Tail(list))

\* line 137: mean = sum(numbers) / len(numbers)
Mean(numbers) == FloatOver(SumTo(numbers, Len(numbers)), Len(numbers))

\* lines 137-147 for the entries kept, as they stood and in ascending order
Statistics(numbers, sorted_nums) ==
    LET n == Len(sorted_nums)
    IN  [mean |-> Mean(numbers),
         median |-> IF n % 2 = 1 THEN FloatOf(sorted_nums[n \div 2 + 1])
                    ELSE FloatOver(FloatPlus(FloatOf(sorted_nums[n \div 2]),
                                             FloatOf(sorted_nums[n \div 2 + 1])), 2),
         max |-> FloatOf(sorted_nums[n]),
         min |-> FloatOf(sorted_nums[1])]

\* lines 128-147
calculate_statistics(numbers) ==
    LET kept == SelectSeq(numbers, LAMBDA entry : ~entry.null /\ entry.tenths > 0)
    IN  IF numbers = <<>> \/ kept = <<>>
        THEN [mean |-> Zero, median |-> Zero, max |-> Zero, min |-> Zero]
        ELSE CHOOSE r \in {Statistics(filtered, sorted_nums) : filtered \in {kept}, sorted_nums \in {SortAsc(<<>>, kept)}} : TRUE

\* factor.replace('_', ' ').title() of line 192
FactorTitle ==
    [topic_alignment |-> "Topic Alignment", authority_score |-> "Authority Score",
     audience_appeal |-> "Audience Appeal", uniqueness_factor |-> "Uniqueness Factor",
     engagement_potential |-> "Engagement Potential"]

extract_key_decision_factors_From60(relevance_analysis) ==
    LET score_breakdown == relevance_analysis.score_breakdown
        scores == << <<FactorTitle.topic_alignment, score_breakdown.topic_alignment.score>>,
                     <<FactorTitle.authority_score, score_breakdown.authority_score.score>>,
                     <<FactorTitle.audience_appeal, score_breakdown.audience_appeal.score>>,
                     <<FactorTitle.uniqueness_factor, score_breakdown.uniqueness_factor.score>>,
                     <<FactorTitle.engagement_potential,
                       score_breakdown.engagement_potential.score>> >>
        sorted_factors == SortDesc(<<>>, scores)
        factors == LinesWhere(Take(sorted_factors, 3), 60, 101)
        concerns == relevance_analysis.areas_of_concern
    IN  IF relevance_analysis.overall_relevance_score < 60 /\ concerns # <<>>
        THEN Append(factors, "Main concern: " \o concerns[1])
        ELSE factors

\* podcast_guest_tracker.py, lines 175-202
extract_key_decision_factors(relevance_analysis) ==
    LET score_breakdown == relevance_analysis.score_breakdown
        scores == << <<FactorTitle.topic_alignment, score_breakdown.topic_alignment.score>>,
                     <<FactorTitle.authority_score, score_breakdown.authority_score.score>>,
                     <<FactorTitle.audience_appeal, score_breakdown.audience_appeal.score>>,
                     <<FactorTitle.uniqueness_factor, score_breakdown.uniqueness_factor.score>>,
                     <<FactorTitle.engagement_potential,
                       score_breakdown.engagement_potential.score>> >>
        sorted_factors == SortDesc(<<>>, scores)
        factors == LinesWhere(Take(sorted_factors, 3), 61, 101)
        concerns == relevance_analysis.areas_of_concern
    IN  IF relevance_analysis.overall_relevance_score < 60 /\ concerns # <<>>
        THEN Append(factors, "Main concern: " \o concerns[1])
        ELSE factors

\* podcast_guest_tracker.py, lines 221-225: the host topics the report lists
ReportTopics(host_analysis) ==
    Get(UnwrapChannelDna(host_analysis), "primary_topics", <<"Unknown">>)

\* line 271: ', '.join(channel_topics) raises on a null list or a null topic
ReportRaises(host_analysis) ==
    LET channel_topics == ReportTopics(host_analysis)
    IN  \/ channel_topics = NoneList
        \/ \E i \in 1..Len(channel_topics) : channel_topics[i] = None

\* podcast_guest_tracker.py, lines 204-316: the executive summary of the
\* report and the host's primary topics; the other sections repeat fields of
\* the three records
generate_comprehensive_report(guest_profile, host_analysis, relevance_analysis, llm_validation) ==
    LET channel_topics == ReportTopics(host_analysis)
    IN  IF ReportRaises(host_analysis) THEN Raised("TypeError")
        ELSE <<"**Current Role:** "
                   \o Format(Get(guest_profile, "current_designation", "Unknown Role")),
               "**Overall Relevance Score:** "
                   \o str(relevance_analysis.overall_relevance_score) \o "/100",
               "**Recommendation:** " \o relevance_analysis.recommendation,
               "- **Primary Topics:** " \o join(", ", channel_topics),
               llm_validation>>

Failed_WithSummary(error, host_channel_url, now) ==
    [error |-> error,
     analysis_metadata |-> [host_channel_url |-> host_channel_url,
                            analysis_timestamp |-> now,
                            status |-> "FAILED"],
     recommendation_summary |-> [overall_score |-> 0, recommendation |-> "UNKNOWN",
                                 confidence |-> "UNKNOWN", key_decision_factors |-> <<>>]]

\* podcast_guest_tracker.py, lines 162-173: the record of a failed analysis
Failed(error, host_channel_url, now) ==
    [error |-> error,
     analysis_metadata |-> [host_channel_url |-> host_channel_url,
                            analysis_timestamp |-> now,
                            status |-> "FAILED"]]

FinalResult_Advised(guest_profile, host_analysis, relevance_analysis, llm_validation, host_channel_url, now) ==
    [analysis_metadata |-> [host_channel_url |-> host_channel_url, analysis_timestamp |-> now],
     guest_profile |-> guest_profile,
     host_analysis |-> host_analysis,
     relevance_analysis |-> relevance_analysis,
     llm_validation |-> llm_validation,
     final_report |-> generate_comprehensive_report(
         guest_profile, host_analysis, relevance_analysis, llm_validation),
     recommendation_summary |->
         [overall_score |-> relevance_analysis.overall_relevance_score,
          recommendation |-> relevance_analysis.recommendation,
          confidence |-> IF llm_validation = Unavailable.generated_text THEN "LOW"
                         ELSE relevance_analysis.confidence_level,
          key_decision_factors |-> extract_key_decision_factors(relevance_analysis)]]

\* podcast_guest_tracker.py, lines 118-154: the report and the final result,
\* llm_validation being what line 107 returned
FinalResult(guest_profile, host_analysis, relevance_analysis, llm_validation, host_channel_url, now) ==
    [analysis_metadata |-> [host_channel_url |-> host_channel_url, analysis_timestamp |-> now],
     guest_profile |-> guest_profile,
     host_analysis |-> host_analysis,
     relevance_analysis |-> relevance_analysis,
     llm_validation |-> llm_validation,
     final_report |-> generate_comprehensive_report(
         guest_profile, host_analysis, relevance_analysis, llm_validation),
     recommendation_summary |->
         [overall_score |-> relevance_analysis.overall_relevance_score,
          recommendation |-> relevance_analysis.recommendation,
          confidence |-> relevance_analysis.confidence_level,
          key_decision_factors |-> extract_key_decision_factors(relevance_analysis)]]

\* lines 54, 72, 98, 107 and 114: the steps of an analysis, in the order of
\* the code
AnalysisSteps == <<"guest profile", "host analysis", "scoring", "validation", "report">>

Fresh_Inclusive(cache_age) == cache_age <= TTL

\* line 80: a cached analysis of this age is used
Fresh(cache_age) == cache_age < TTL

Storable_Any(use_cache, host_analysis) == use_cache

\* line 87: the analysis just computed goes into host_cache
Storable(use_cache, host_analysis) == use_cache /\ "error" \notin DOMAIN host_analysis

\* podcast_guest_tracker.py, lines 53-173, from what step 1 produced, a
\* guest profile or the exception it raised:
\* cache is self.host_cache, findings what analyze_host_channel meets if it
\* runs, now the time.  Returns the record returned, the cache afterwards,
\* whether analyze_host_channel ran, whether step 2 ended with an analysis
\* that has an 'error' key, and the steps that ran to their end.
analyze_podcast_guest_complete(cache, guest_profile, host_channel_url, use_cache, findings, llm_validation, now) ==
    LET hit == /\ use_cache
               /\ host_channel_url \in DOMAIN cache
               /\ Fresh(now - cache[host_channel_url].timestamp)
        host_analysis == IF hit THEN cache[host_channel_url].data
                         ELSE analyze_host_channel(host_channel_url, findings, now)
        stored == ~hit /\ Storable(use_cache, host_analysis)
        \* lines 98-173, scored being what the one call of line 102 did
        Outcome(scored) ==
            LET relevance_analysis == scored.result
                \* the dict in the cache is the dict the scorer was handed
                entry == [data |-> scored.host,
                          timestamp |-> IF hit THEN cache[host_channel_url].timestamp
                                        ELSE now]
            IN  [cache |-> IF hit \/ stored THEN Put(cache, host_channel_url, entry)
                           ELSE cache,
                 analyzed |-> ~hit,
                 failed |-> "error" \in DOMAIN host_analysis,
                 steps |->
                    IF IsRaised(relevance_analysis) THEN Take(AnalysisSteps, 2)
                    ELSE IF IsRaised(ValidationPrompt(relevance_analysis, scored.guest, scored.host))
                    THEN Take(AnalysisSteps, 3)
                    ELSE IF ReportRaises(scored.host) THEN Take(AnalysisSteps, 4)
                    ELSE AnalysisSteps,
                 result |->
                    IF IsRaised(relevance_analysis)
                    THEN Failed(relevance_analysis.raised, host_channel_url, now)
                    ELSE IF IsRaised(ValidationPrompt(relevance_analysis, scored.guest, scored.host))
                    THEN Failed(ValidationPrompt(relevance_analysis, scored.guest, scored.host).raised,
                                host_channel_url, now)
                    ELSE IF ReportRaises(scored.host)
                    THEN Failed("TypeError", host_channel_url, now)
                    ELSE FinalResult(scored.guest, scored.host, relevance_analysis,
                                     call_llm_for_scoring_validation(
                                         relevance_analysis, scored.guest, scored.host,
                                         [generated_text |-> llm_validation]),
                                     host_channel_url, now)]
    IN  IF IsRaised(guest_profile)
        THEN \* lines 58-67: step 1 raised, nothing else ran
             [cache |-> cache, analyzed |-> FALSE, failed |-> FALSE, steps |-> <<>>,
              result |-> Failed(guest_profile.raised, host_channel_url, now)]
        ELSE CHOOSE outcome \in
                {Outcome(scored) :
                    scored \in {calculate_overall_relevance_score(
                                    guest_profile, host_analysis, now)}} :
                TRUE


--------------------------------------------------------------------------
(* Inputs.  The guest profile is what extract_structured_guest_profile     *)
(* parses out of the language model's JSON, the host analysis is what      *)
(* analyze_host_channel returns: any key may be missing.                   *)

MaxCalls == 2

RECURSIVE SeqsUpTo(_, _)
\* the lists over S of length at most n
SeqsUpTo(S, n) ==
    IF n = 0 THEN {<<>>}
    ELSE LET shorter == SeqsUpTo(S, n - 1)
         IN  shorter \cup {Append(list, x) : list \in shorter, x \in S}

Restrict(f, keys) == [k \in keys |-> f[k]]

AreaVocab == {"AI", "Art"}
InterviewVocab == {"AI", "Business"}
PrimaryVocab == {"ai"}
HighVocab == {"art"}

GuestKeys ==
    {"expertise_areas", "potential_interview_topics", "estimated_authority_level",
     "authority_indicators", "industry", "current_designation", "social_following"}

\* the key sets a profile may come with: every key, or one of the two topic
\* lists missing
GuestKeySets ==
    {GuestKeys, GuestKeys \ {"expertise_areas"}, GuestKeys \ {"potential_interview_topics"}}

GuestProfiles ==
    {Restrict(g, keys) :
        g \in [expertise_areas : SeqsUpTo(AreaVocab, MaxAreas),
               potential_interview_topics : SeqsUpTo(InterviewVocab, MaxInterview),
               estimated_authority_level : {"HIGH", "LOW"},
               authority_indicators : {<<>>},
               industry : {"Technology", "Art"},
               current_designation : {"Engineer"},
               social_following : {<<>>, << <<"twitter", "150000">> >>}],
        keys \in GuestKeySets}

\* analyze_host_channel, lines 274-281: the parsed JSON is stored under
\* 'channel_dna' as it came, i.e. with the ChannelDNA under a further
\* 'channel_dna' key and success_patterns beside it
NestedHost(primary, high, views) ==
    [channel_dna |-> [channel_dna |-> [primary_topics |-> primary],
                      success_patterns |-> [high_performing_topics |-> high]],
     performance_metrics |-> [average_views |-> views]]

\* the same content with the ChannelDNA directly under 'channel_dna'
FlatHost(primary, high, views) ==
    [channel_dna |-> [primary_topics |-> primary,
                      success_patterns |-> [high_performing_topics |-> high]],
     performance_metrics |-> [average_views |-> views]]

\* analyze_host_channel, lines 239-243 and 285-289: the record of a failed analysis
ErrorHost == [error |-> "Could not fetch videos from channel"]

ViewValues == {5000}

HostAnalyses ==
    {ErrorHost}
    \cup {NestedHost(p, h, v) : p \in SeqsUpTo(PrimaryVocab, MaxPrimary),
                                h \in SeqsUpTo(HighVocab, MaxHigh), v \in ViewValues}
    \cup {FlatHost(p, h, v) : p \in SeqsUpTo(PrimaryVocab, MaxPrimary),
                              h \in SeqsUpTo(HighVocab, MaxHigh), v \in ViewValues}

\* the profile the fields of a malformed one are taken from
BaseProfile ==
    [expertise_areas |-> <<"AI">>,
     potential_interview_topics |-> <<"Business">>,
     estimated_authority_level |-> "HIGH",
     authority_indicators |-> <<"PhD">>,
     industry |-> "Technology",
     current_designation |-> "Founder",
     social_following |-> << <<"twitter", "150000">> >>]

\* what a field may hold instead: nothing (the key is missing), null, empty,
\* or the placeholders of the fallback profiles (guest_analyzer_base.py,
\* lines 314-365)
FieldOptions(key) ==
    IF key \in {"expertise_areas", "potential_interview_topics", "authority_indicators"}
    THEN {NoneList, <<>>, <<None>>, <<"">>, <<"Unknown">>}
    ELSE IF key = "social_following"
    THEN {NoneDict, <<>>, << <<"unknown", "unknown">> >>, << <<"twitter", None>> >>,
          << <<"twitter", "many">> >>}
    ELSE {None, "", "Unknown"}

MaxMalformed == 1

RECURSIVE Deviations(_)
\* the profiles in which at most n fields differ from BaseProfile
Deviations(n) ==
    IF n = 0 THEN {BaseProfile}
    ELSE LET fewer == Deviations(n - 1)
         IN  fewer
             \cup {Restrict(g, DOMAIN g \ {key}) : g \in fewer, key \in GuestKeys}
             \cup UNION {{[g EXCEPT ![key] = value] :
                            g \in {f \in fewer : key \in DOMAIN f},
                            value \in FieldOptions(key)} :
                        key \in GuestKeys}

MalformedProfiles == Deviations(MaxMalformed)

\* host analyses with parts missing, empty or null
MalformedHosts ==
    {ErrorHost,
     NestedHost(<<"ai">>, <<"art">>, 5000),
     [channel_dna |-> [channel_dna |-> [primary_topics |-> NoneList]]],
     [channel_dna |-> [primary_topics |-> <<"ai">>,
                       success_patterns |-> [high_performing_topics |-> NoneList]]],
     [channel_dna |-> [primary_topics |-> <<>>], performance_metrics |-> <<>>],
     [channel_dna |-> [content_style |-> "interview"],
      performance_metrics |-> [average_views |-> 0]]}

--------------------------------------------------------------------------
(* One caller using a GuestRelevanceScorer on one guest profile and one    *)
(* host analysis: each action is one call of a public method.  last holds  *)
(* the method called, the two arguments as they were passed in, and what   *)
(* the call returned; clock is the time datetime.now() and time.time()     *)
(* read.  frames holds the calls in progress on other threads, host_cache  *)
(* the host_cache of every OneClickPodcastGuestTracker, tasks the analysis *)
(* requests in progress and computed the runs of analyze_host_channel so   *)
(* far; this caller has none of them.  llm is the call of generate_text    *)
(* in progress, if any.  scorer is the GuestRelevanceScorer with the dict  *)
(* its constructor built, and analyses the results of                      *)
(* calculate_overall_relevance_score that a caller has kept.               *)

VARIABLES guest_profile, host_analysis, last, clock, frames, host_cache, tasks, computed, llm, scorer, analyses

vars == <<guest_profile, host_analysis, last, clock, frames, host_cache, tasks, computed, llm, scorer, analyses>>

\* no thread, tracker or request exists
\* no call of generate_text is in progress
Idle == [pc |-> "idle"]

\* relevance_scoring_engine.py, lines 13-23: a scorer as constructed, and a
\* caller that has kept no analysis yet
Constructed ==
    /\ scorer = [scoring_weights |-> scoring_weights]
    /\ analyses = <<>>

Alone ==
    /\ frames = <<>>
    /\ host_cache = <<>>
    /\ tasks = <<>>
    /\ computed = {}
    /\ llm = Idle
    /\ Constructed

Init ==
    /\ guest_profile \in GuestProfiles
    /\ host_analysis \in HostAnalyses
    /\ last = [op |-> "none"]
    /\ clock = 0
    /\ Alone

\* the effect of one call: r is [result, guest, host]
Called(op, r) ==
    /\ clock < MaxCalls
    /\ guest_profile' = r.guest
    /\ host_analysis' = r.host
    /\ last' = [op |-> op, guest |-> guest_profile, host |-> host_analysis,
                result |-> r.result]
    /\ clock' = clock + 1
    /\ UNCHANGED <<frames, host_cache, tasks, computed, llm, scorer, analyses>>

Pure(result) == [result |-> result, guest |-> guest_profile, host |-> host_analysis]

CallTopicAlignment ==
    Called("calculate_topic_alignment_score",
           calculate_topic_alignment_score(guest_profile, host_analysis))

CallAuthority ==
    Called("calculate_authority_score", Pure(calculate_authority_score(guest_profile)))

CallAudienceAppeal ==
    Called("calculate_audience_appeal_score",
           Pure(calculate_audience_appeal_score(guest_profile, host_analysis)))

CallUniqueness ==
    Called("calculate_uniqueness_score", Pure(calculate_uniqueness_score(guest_profile)))

CallEngagementPotential ==
    Called("calculate_engagement_potential_score",
           Pure(calculate_engagement_potential_score(guest_profile, host_analysis)))

CallOverall ==
    Called("calculate_overall_relevance_score",
           calculate_overall_relevance_score(guest_profile, host_analysis, clock + 1))

Next ==
    \/ CallTopicAlignment
    \/ CallAuthority
    \/ CallAudienceAppeal
    \/ CallUniqueness
    \/ CallEngagementPotential
    \/ CallOverall

Spec == Init /\ [][Next]_vars

\* the same caller, given records with missing, empty or null parts
InitMalformed ==
    /\ guest_profile \in MalformedProfiles
    /\ host_analysis \in MalformedHosts
    /\ last = [op |-> "none"]
    /\ clock = 0
    /\ Alone

SpecMalformed == InitMalformed /\ [][Next]_vars

--------------------------------------------------------------------------
(* Long topic lists: the guest's expertise areas are some terms that       *)
(* contain the host's primary topic followed by some that do not.          *)

MaxTerms == 50

RECURSIVE Repeat(_, _)
\* n times the term x
Repeat(x, n) == IF n = 0 THEN <<>> ELSE <<x>> \o Repeat(x, n - 1)

LongProfile(matching, others) ==
    [BaseProfile EXCEPT !.expertise_areas = Repeat("AI ethics", matching) \o Repeat("Art", others),
                        !.potential_interview_topics = <<>>]

LongProfiles ==
    UNION {{LongProfile(matching, n - matching) : matching \in 0..n} : n \in 1..MaxTerms}

TopicHosts ==
    {NestedHost(primary, <<>>, 5000) : primary \in {<<"ai">>, <<"AI Ethics">>}}
    \cup {FlatHost(primary, <<>>, 5000) : primary \in {<<"ai">>, <<"AI Ethics">>}}

InitTopics ==
    /\ guest_profile \in LongProfiles
    /\ host_analysis \in TopicHosts
    /\ last = [op |-> "none"]
    /\ clock = 0
    /\ Alone

NextTopics == CallTopicAlignment

SpecTopics == InitTopics /\ [][NextTopics]_vars

--------------------------------------------------------------------------
(* The single factors over their whole range: profiles that differ from    *)
(* BaseProfile in the fields one factor reads, and hosts with view counts  *)
(* on both sides of the two thresholds.                                    *)

MaxIndicators == 5
MaxPlatforms == 3
MaxEngaging == 2

LevelVocab == {"HIGH", "MEDIUM", "LOW", "UNKNOWN", "Very high"}
IndicatorVocab == {"PhD", "Keynote speaker", "CEO and founder"}

AuthorityProfiles ==
    {[BaseProfile EXCEPT !.estimated_authority_level = level, !.authority_indicators = indicators] :
        level \in LevelVocab, indicators \in SeqsUpTo(IndicatorVocab, MaxIndicators)}
    \cup {Restrict([BaseProfile EXCEPT !.authority_indicators = indicators],
                   GuestKeys \ {"estimated_authority_level"}) :
             indicators \in SeqsUpTo(IndicatorVocab, MaxIndicators)}

IndustryVocab ==
    {"Technology", "BUSINESS", "entertainment", "Education", "Healthcare", "Finance", "Unknown",
     "Art", "Technology and media"}
DesignationVocab ==
    {"Senior Engineer", "CEO", "Co-Founder", "Celebrity chef", "Author", "Influencer", "Unknown"}

AppealProfiles ==
    {[BaseProfile EXCEPT !.industry = industry, !.current_designation = designation] :
        industry \in IndustryVocab, designation \in DesignationVocab}
    \cup {Restrict(BaseProfile, GuestKeys \ {"industry", "current_designation"})}

BoundaryViews == {0, 9999, 10000, 10001, 100000, 100001, 500000}

ViewHosts ==
    {FlatHost(<<"ai">>, <<>>, views) : views \in BoundaryViews}
    \cup {ErrorHost, [channel_dna |-> [primary_topics |-> <<"ai">>], performance_metrics |-> [x \in {} |-> x]]}

FollowerVocab ==
    {"", "unknown", "Unknown", "many", "1000", "1001", "10000", "10001", "100000", "100001",
     "150000", "1.5M", "12,500 followers"}
PlatformVocab == <<"twitter", "linkedin", "youtube", "instagram">>
EngagingVocab == {"Technology trends", "Politics and business", "Art", "INNOVATION"}

LargeFollowings == {"150000", "12,500 followers"}

\* the dicts of up to n platforms, each platform at most once
SocialFollowings(values, n) ==
    UNION {{[i \in 1..k |-> <<PlatformVocab[i], chosen[i]>>] : chosen \in [1..k -> values]} : k \in 0..n}

EngagementProfiles ==
    {[BaseProfile EXCEPT !.potential_interview_topics = topics, !.social_following = following] :
        topics \in SeqsUpTo(EngagingVocab, MaxEngaging),
        following \in SocialFollowings(LargeFollowings, MaxPlatforms)}
    \cup {[BaseProfile EXCEPT !.potential_interview_topics = <<"Art">>, !.social_following = following] :
             following \in SocialFollowings(FollowerVocab, 1)}

InitFactors ==
    /\ \/ guest_profile \in AuthorityProfiles \cup EngagementProfiles
          /\ host_analysis = FlatHost(<<"ai">>, <<>>, 5000)
       \/ guest_profile \in AppealProfiles
          /\ host_analysis \in ViewHosts
    /\ last = [op |-> "none"]
    /\ clock = 0
    /\ Alone

NextFactors ==
    \/ CallAuthority
    \/ CallAudienceAppeal
    \/ CallEngagementPotential
    \/ CallOverall

SpecFactors == InitFactors /\ [][NextFactors]_vars

--------------------------------------------------------------------------
(* The key decision factors of a scoring result (podcast_guest_tracker.py, *)
(* line 152): the scoring of line 102 followed by the extraction.          *)

CallKeyDecisionFactors ==
    /\ last.op = "calculate_overall_relevance_score"
    /\ ~IsRaised(last.result)
    /\ clock < MaxCalls
    /\ last' = [op |-> "extract_key_decision_factors", guest |-> guest_profile,
                host |-> host_analysis, analysis |-> last.result,
                result |-> extract_key_decision_factors(last.result)]
    /\ clock' = clock + 1
    /\ UNCHANGED <<guest_profile, host_analysis, frames, host_cache, tasks, computed, llm, scorer, analyses>>

InitDecision ==
    /\ \/ guest_profile \in GuestProfiles
          /\ host_analysis \in HostAnalyses
       \/ guest_profile \in AuthorityProfiles
          /\ host_analysis = FlatHost(<<"ai">>, <<>>, 5000)
    /\ last = [op |-> "none"]
    /\ clock = 0
    /\ Alone

NextDecision ==
    \/ CallOverall
    \/ CallKeyDecisionFactors

SpecDecision == InitDecision /\ [][NextDecision]_vars

--------------------------------------------------------------------------
(* The validation step (podcast_guest_tracker.py, line 107) after the      *)
(* scoring of line 102, with the call of generate_text it makes taken one  *)
(* attempt and one sleep at a time.  llm holds the attempt number of the   *)
(* loop of line 34, the outcomes of the attempts made, the delays slept    *)
(* and, once the method has returned, what it returned, together with the *)
(* parts of the prompt it was given.                                       *)

ReplyTexts == {"The scoring is reasonable.", ""}

Bodies ==
    {[response |-> text] : text \in ReplyTexts} \cup {[done |-> "true"], NotJson}

Outcomes ==
    {[kind |-> "response", status_code |-> 200, body |-> body] : body \in Bodies}
    \cup {[kind |-> "response", status_code |-> 500, body |-> NotJson]}
    \cup {[kind |-> "ConnectionError"], [kind |-> "Timeout"]}

ClientProfiles ==
    {BaseProfile,
     [BaseProfile EXCEPT !.expertise_areas = <<"AI", "Art", "Robotics", "Law">>],
     Restrict(BaseProfile, GuestKeys \ {"expertise_areas"})}

ClientHosts ==
    {ErrorHost,
     FlatHost(<<"ai">>, <<"art">>, 5000),
     NestedHost(<<"ai">>, <<"art">>, 5000),
     NestedHost(<<None, "ai">>, <<"art">>, 5000)}

InitClient ==
    /\ guest_profile \in ClientProfiles
    /\ host_analysis \in ClientHosts
    /\ last = [op |-> "none"]
    /\ clock = 0
    /\ Alone

\* relevance_scoring_engine.py, lines 291-328: the call up to the first
\* attempt, or the exception the building of the prompt raises
BeginValidation ==
    /\ last.op = "calculate_overall_relevance_score"
    /\ ~IsRaised(last.result)
    /\ llm = Idle
    /\ IF IsRaised(ValidationPrompt(last.result, guest_profile, host_analysis))
       THEN /\ last' = [op |-> "call_llm_for_scoring_validation", guest |-> guest_profile,
                        host |-> host_analysis, analysis |-> last.result,
                        result |-> ValidationPrompt(last.result, guest_profile, host_analysis),
                        raised |-> TRUE, outcomes |-> <<>>, slept |-> <<>>,
                        prompt |-> ValidationPrompt(last.result, guest_profile, host_analysis)]
            /\ UNCHANGED llm
       ELSE /\ llm' = [pc |-> "post", attempt |-> 0, outcomes |-> <<>>, slept |-> <<>>,
                       returned |-> Idle,
                       prompt |-> ValidationPrompt(last.result, guest_profile, host_analysis)]
            /\ UNCHANGED last
    /\ UNCHANGED <<guest_profile, host_analysis, clock, frames, host_cache, tasks, computed, scorer, analyses>>

\* ollama_client.py, lines 34-61 for one attempt: the post and what follows
\* it up to the sleep, the return or the end of the loop
Post ==
    /\ llm.pc = "post"
    /\ \E outcome \in Outcomes :
          llm' = IF ~AttemptFailed(outcome)
                 THEN [llm EXCEPT !.pc = "returned", !.outcomes = Append(@, outcome),
                                  !.returned = AttemptReturns(outcome)]
                 ELSE IF llm.attempt < max_retries - 1
                 THEN [llm EXCEPT !.pc = "sleep", !.outcomes = Append(@, outcome)]
                 ELSE [llm EXCEPT !.pc = "returned", !.outcomes = Append(@, outcome),
                                  !.returned = Unavailable]
    /\ UNCHANGED <<guest_profile, host_analysis, last, clock, frames, host_cache, tasks, computed, scorer, analyses>>

\* lines 48-49 and 54-55: time.sleep(self.retry_delay); continue
Sleep ==
    /\ llm.pc = "sleep"
    /\ llm' = [llm EXCEPT !.pc = "post", !.attempt = @ + 1, !.slept = Append(@, retry_delay)]
    /\ clock' = clock + retry_delay
    /\ UNCHANGED <<guest_profile, host_analysis, last, frames, host_cache, tasks, computed, scorer, analyses>>

\* relevance_scoring_engine.py, lines 329-330
FinishValidation ==
    /\ llm.pc = "returned"
    /\ last' = [op |-> "call_llm_for_scoring_validation", guest |-> guest_profile,
                host |-> host_analysis, analysis |-> last.result,
                result |-> call_llm_for_scoring_validation(last.result, guest_profile,
                                                           host_analysis, llm.returned),
                raised |-> FALSE, outcomes |-> llm.outcomes, slept |-> llm.slept,
                prompt |-> llm.prompt]
    /\ llm' = Idle
    /\ UNCHANGED <<guest_profile, host_analysis, clock, frames, host_cache, tasks, computed, scorer, analyses>>

NextClient ==
    \/ CallOverall
    \/ BeginValidation
    \/ Post
    \/ Sleep
    \/ FinishValidation

SpecClient == InitClient /\ [][NextClient]_vars

--------------------------------------------------------------------------
(* A caller that keeps the analyses calculate_overall_relevance_score      *)
(* returns (podcast_guest_tracker.py, line 102) while it goes on: the      *)
(* validation of line 107 with its retries, the report of line 118, the    *)
(* key decision factors of line 152 and further scoring calls, on the same *)
(* two objects or on others.  A kept analysis is the dict of lines         *)
(* 274-289; a part of it that is the very object another holder has is     *)
(* read through that holder, so that a change of the holder's object       *)
(* shows in the analysis.                                                  *)

MaxAnalyses == 2

SharedParts_WholeList == {[part |-> "scoring_weights", holder |-> "scorer", key |-> "scoring_weights"], [part |-> "uniqueness_factors", holder |-> "guest_profile", key |-> "expertise_areas"]}

\* relevance_scoring_engine.py, lines 274-289: 'scoring_weights' is the
\* scorer's own dict (line 287); the evidence lists of lines 71, 106, 181
\* and 219 are slices and that of line 151 a new list, objects nothing
\* else holds
SharedParts == {[part |-> "scoring_weights", holder |-> "scorer", key |-> "scoring_weights"]}

\* what a part of an analysis reads as, own being the value the dict itself
\* holds
PartOf(part, own, a_scorer, a_guest) ==
    LET shared == {sh \in SharedParts : sh.part = part}
        sh == CHOOSE x \in shared : TRUE
    IN  IF shared = {} THEN own
        ELSE IF sh.holder = "scorer" THEN a_scorer[sh.key]
        ELSE Get(a_guest, sh.key, <<>>)

\* an analysis as a reader finds it, given the scorer and the guest profile
\* it was computed from as they are now
Read(analysis, a_scorer, a_guest) ==
    [analysis EXCEPT
        !.scoring_weights = PartOf("scoring_weights", @, a_scorer, a_guest),
        !.score_breakdown.topic_alignment.topic_matches =
            PartOf("topic_matches", @, a_scorer, a_guest),
        !.score_breakdown.authority_score.authority_indicators =
            PartOf("authority_indicators", @, a_scorer, a_guest),
        !.score_breakdown.audience_appeal.appeal_factors =
            PartOf("appeal_factors", @, a_scorer, a_guest),
        !.score_breakdown.uniqueness_factor.uniqueness_factors =
            PartOf("uniqueness_factors", @, a_scorer, a_guest),
        !.score_breakdown.engagement_potential.engagement_factors =
            PartOf("engagement_factors", @, a_scorer, a_guest)]

\* a kept analysis: the dict, what it read as when it was returned, and the
\* guest profile it was computed from (the caller's own object, or another)
Kept(on, r) ==
    [analysis |-> r.result, on |-> on, guest |-> r.guest,
     returned |-> Read(r.result, scorer, r.guest)]

\* kept analysis k as it reads now
Current(k) ==
    Read(analyses[k].analysis, scorer,
         IF analyses[k].on = "same" THEN guest_profile ELSE analyses[k].guest)

KeptProfiles == {BaseProfile, [BaseProfile EXCEPT !.expertise_areas = <<"AI", "Art">>]}

KeptHosts == {FlatHost(<<"ai">>, <<"art">>, 5000), NestedHost(<<"ai">>, <<"art">>, 5000)}

InitAnalyses ==
    /\ guest_profile \in KeptProfiles
    /\ host_analysis \in KeptHosts
    /\ last = [op |-> "none"]
    /\ clock = 0
    /\ Alone

\* line 102: the scorer is called on the caller's two objects ("same"), which
\* the call may change, or on two other objects ("other")
ScoreAgain ==
    /\ llm = Idle
    /\ Len(analyses) < MaxAnalyses
    /\ \E on \in {"same", "other"} :
       \E g \in IF on = "same" THEN {guest_profile} ELSE KeptProfiles :
       \E h \in IF on = "same" THEN {host_analysis} ELSE KeptHosts :
       \E r \in {calculate_overall_relevance_score(g, h, clock + 1)} :
          /\ IF on = "same"
             THEN /\ guest_profile' = r.guest
                  /\ host_analysis' = r.host
                  /\ last' = [op |-> "calculate_overall_relevance_score",
                              guest |-> guest_profile, host |-> host_analysis,
                              result |-> r.result]
             ELSE UNCHANGED <<guest_profile, host_analysis, last>>
          /\ IF IsRaised(r.result) THEN analyses' = analyses
             ELSE \E kept \in {Kept(on, r)} : analyses' = Append(analyses, kept)
    /\ clock' = clock + 1
    /\ UNCHANGED <<frames, host_cache, tasks, computed, llm, scorer>>

\* podcast_guest_tracker.py, line 152, on a kept analysis
ExtractKept(k) ==
    /\ llm = Idle
    /\ \E analysis \in {Current(k)} :
       \E result \in {extract_key_decision_factors(analysis)} :
          last' = [op |-> "extract_key_decision_factors", guest |-> guest_profile,
                   host |-> host_analysis, analysis |-> analysis, result |-> result]
    /\ UNCHANGED <<guest_profile, host_analysis, clock, frames, host_cache, tasks, computed,
                   llm, scorer, analyses>>

\* podcast_guest_tracker.py, line 118, on a kept analysis
ReportKept(k) ==
    /\ llm = Idle
    /\ \E llm_validation \in ReplyTexts \cup {Unavailable.generated_text} :
       \E analysis \in {Current(k)} :
       \E result \in {generate_comprehensive_report(guest_profile, host_analysis,
                                                     analysis, llm_validation)} :
          last' = [op |-> "generate_comprehensive_report", guest |-> guest_profile,
                   host |-> host_analysis, analysis |-> analysis, result |-> result]
    /\ UNCHANGED <<guest_profile, host_analysis, clock, frames, host_cache, tasks, computed,
                   llm, scorer, analyses>>

NextAnalyses ==
    \/ ScoreAgain
    \/ BeginValidation
    \/ Post
    \/ Sleep
    \/ FinishValidation
    \/ \E k \in DOMAIN analyses : ExtractKept(k)
    \/ \E k \in DOMAIN analyses : ReportKept(k)

SpecAnalyses == InitAnalyses /\ [][NextAnalyses]_vars

--------------------------------------------------------------------------
(* calculate_statistics called on lists of counts and durations, as        *)
(* analyze_video_performance calls it (host_channel_analyzer.py, lines     *)
(* 159-162) before any host analysis or guest profile exists.              *)

MaxNumbers == 3

NoNumber == [null |-> TRUE, tenths |-> 0]

Number(tenths) == [null |-> FALSE, tenths |-> tenths]

\* None, 0, -5, 0.1, 2, 7 and 3600.7
NumberVocab == {NoNumber, Number(0), Number(-50), Number(1), Number(20), Number(70), Number(36007)}

NumberLists == SeqsUpTo(NumberVocab, MaxNumbers)

InitStatistics ==
    /\ guest_profile = NoneDict
    /\ host_analysis = NoneDict
    /\ last = [op |-> "none"]
    /\ clock = 0
    /\ Alone

\* one call, on any of the lists
CallStatistics ==
    /\ last.op = "none"
    /\ \E numbers \in NumberLists :
          last' = [op |-> "calculate_statistics", numbers |-> numbers,
                   result |-> calculate_statistics(numbers)]
    /\ clock' = clock + 1
    /\ UNCHANGED <<guest_profile, host_analysis, frames, host_cache, tasks, computed, llm,
                   scorer, analyses>>

NextStatistics == CallStatistics

SpecStatistics == InitStatistics /\ [][NextStatistics]_vars

--------------------------------------------------------------------------
(* Two threads that each call calculate_overall_relevance_score on the     *)
(* same scorer with the same two records.  The interpreter switches        *)
(* threads between bytecodes; list.extend, the list comprehensions, join,  *)
(* len and the slice each run to completion once started, and the          *)
(* statements in between only take references or read fields that no       *)
(* statement writes, so a step is one access to a shared list together     *)
(* with the statements that follow it up to the next access.  The records  *)
(* are well formed, so no statement raises.                                *)

Threads == {"A", "B"}

ThreadProfiles ==
    {g \in GuestProfiles :
        /\ g.estimated_authority_level = "HIGH"
        /\ g.industry = "Technology"
        /\ g.social_following = <<>>}

NewFrame ==
    [pc |-> "idle", given |-> <<>>, guest_topics |-> <<>>, host_topics |-> <<>>,
     guest_topics_lower |-> <<>>, topic_score |-> <<>>, authority_score |-> <<>>,
     audience_score |-> <<>>, niche_boost |-> 0, wide_boost |-> 0, areas_count |-> 0,
     result |-> <<>>]

InitThreads ==
    /\ guest_profile \in ThreadProfiles
    /\ host_analysis \in HostAnalyses
    /\ last = [op |-> "none"]
    /\ clock = 0
    /\ frames = [t \in Threads |-> NewFrame]
    /\ host_cache = <<>>
    /\ tasks = <<>>
    /\ computed = {}
    /\ llm = Idle
    /\ Constructed

\* thread t moves from pc `from` to frame f
Step(t, from, f) ==
    /\ frames[t].pc = from
    /\ frames' = [frames EXCEPT ![t] = f]
    /\ UNCHANGED <<last, clock, host_cache, tasks, computed, llm, scorer, analyses>>

\* the list the local guest_topics of line 29 refers to: the profile's own
\* list when the key is present, the thread's fresh one otherwise
GuestTopicsOf(f) ==
    IF "expertise_areas" \in DOMAIN guest_profile THEN guest_profile.expertise_areas
    ELSE f.guest_topics

\* the list the local host_topics of line 37 refers to
HostTopicsOf(f) ==
    LET channel_dna == UnwrapChannelDna(host_analysis)
    IN  IF "primary_topics" \in DOMAIN channel_dna THEN channel_dna.primary_topics
        ELSE f.host_topics

\* line 227: the call is made; given remembers the two records as passed
BeginCall(t) ==
    /\ Step(t, "idle", [frames[t] EXCEPT !.pc = "l29",
                            !.given = [guest |-> guest_profile, host |-> host_analysis]])
    /\ UNCHANGED <<guest_profile, host_analysis>>

\* lines 29-30
ExtendGuestTopics(t) ==
    LET gs == GuestTopicsStep(guest_profile)
    IN  /\ Step(t, "l29", [frames[t] EXCEPT !.pc = "l33", !.guest_topics = gs.topics])
        /\ guest_profile' = gs.guest
        /\ UNCHANGED host_analysis

\* lines 33-38
ExtendHostTopics(t) ==
    LET hs == HostTopicsStep(host_analysis)
    IN  /\ Step(t, "l33", [frames[t] EXCEPT !.pc = "l41", !.host_topics = hs.topics])
        /\ host_analysis' = hs.host
        /\ UNCHANGED guest_profile

\* line 41
LowerGuestTopics(t) ==
    /\ Step(t, "l41", [frames[t] EXCEPT !.pc = "l42",
                           !.guest_topics_lower = LowerTruthy(GuestTopicsOf(frames[t]))])
    /\ UNCHANGED <<guest_profile, host_analysis>>

\* lines 42-73, then calculate_authority_score and
\* calculate_audience_appeal_score (lines 230-231)
ScoreFactors(t) ==
    /\ Step(t, "l42",
            [frames[t] EXCEPT
                !.pc = "l169",
                !.topic_score = TopicFromLower(frames[t].guest_topics_lower,
                                               LowerTruthy(HostTopicsOf(frames[t]))),
                !.authority_score = calculate_authority_score(guest_profile),
                !.audience_score = calculate_audience_appeal_score(guest_profile,
                                                                   host_analysis)])
    /\ UNCHANGED <<guest_profile, host_analysis>>

\* lines 161-170 of calculate_uniqueness_score: the join of line 169 reads
\* the list under 'expertise_areas'
JoinExpertise(t) ==
    /\ Step(t, "l169",
            [frames[t] EXCEPT
                !.pc = "l173",
                !.niche_boost = NicheBoost(Get(guest_profile, "expertise_areas", <<>>))])
    /\ UNCHANGED <<guest_profile, host_analysis>>

\* lines 172-174: len() reads the list again
CountExpertise(t) ==
    /\ Step(t, "l173",
            [frames[t] EXCEPT
                !.pc = "l180",
                !.wide_boost = WideBoost(Get(guest_profile, "expertise_areas", <<>>))])
    /\ UNCHANGED <<guest_profile, host_analysis>>

\* lines 176-180: the len() inside the reasoning string
FormatReasoning(t) ==
    /\ Step(t, "l180",
            [frames[t] EXCEPT
                !.pc = "l181",
                !.areas_count = Len(Get(guest_profile, "expertise_areas", <<>>))])
    /\ UNCHANGED <<guest_profile, host_analysis>>

\* lines 181-183: the slice; then calculate_engagement_potential_score
\* (line 233) and lines 235-289
FinishCall(t) ==
    LET f == frames[t]
        uniqueness_score ==
            UniquenessResult(f.niche_boost, f.wide_boost, f.areas_count,
                             Take(Get(guest_profile, "expertise_areas", <<>>), 3),
                             Get(guest_profile, "industry", "Unknown"))
        engagement_score == calculate_engagement_potential_score(guest_profile, host_analysis)
    IN  /\ Step(t, "l181",
                [f EXCEPT !.pc = "done",
                          !.result = Aggregate(f.topic_score, f.authority_score,
                                               f.audience_score, uniqueness_score,
                                               engagement_score, clock)])
        /\ UNCHANGED <<guest_profile, host_analysis>>

NextThreads ==
    \E t \in Threads :
        \/ BeginCall(t)
        \/ ExtendGuestTopics(t)
        \/ ExtendHostTopics(t)
        \/ LowerGuestTopics(t)
        \/ ScoreFactors(t)
        \/ JoinExpertise(t)
        \/ CountExpertise(t)
        \/ FormatReasoning(t)
        \/ FinishCall(t)

SpecThreads == InitThreads /\ [][NextThreads]_vars

--------------------------------------------------------------------------
(* OneClickPodcastGuestTracker (podcast_guest_tracker.py) and the web      *)
(* handler analyze_guest (web_app.py).  The callers are coroutines on one  *)
(* event loop: a coroutine runs until it waits for the network, which      *)
(* analyze_podcast_guest_complete does only inside step 1 (the aiohttp      *)
(* requests of PremiumGuestAnalyzer); analyze_host_channel, the scorer and *)
(* the report contain no await that suspends, so everything from the end   *)
(* of step 1 to the return runs without another coroutine in between.      *)

MaxTasks == 2
MaxTicks == 2

Tasks == 1..MaxTasks

\* the tracker a script creates once and calls directly (test_complete.py,
\* line 10); the tracker request i creates is tracker i
ScriptTracker == 0

\* web_app.py, line 322
DefaultChannel == "https://youtube.com/@lexfridman"
OtherChannel == "https://youtube.com/@hubermanlab"

\* what extract_structured_guest_profile hands back: the language model's
\* JSON, here complete or with a null list
TrackerProfiles == {BaseProfile, [BaseProfile EXCEPT !.expertise_areas = NoneList]}

\* what the videos and the language model give analyze_host_channel: no
\* videos, or metrics and the model's JSON, in the layout the prompt asks
\* for or with the topic lists at the top level
ChannelFindings ==
    {NoVideos, NestedHost(<<"ai">>, <<"art">>, 5000), FlatHost(<<"ai">>, <<"art">>, 5000),
     FlatHost(<<None, "ai">>, <<"art">>, 5000), NestedHost(<<None, "ai">>, <<"art">>, 5000)}

\* what step 1 ends with: a profile, or an exception raised while the guest
\* was analysed
GuestStepRaised == Raised("ClientError")
GuestStepOutcomes == TrackerProfiles \cup {GuestStepRaised}

\* what generate_text returns for the validation prompt: the model's text,
\* or the text of the record returned when every attempt failed
ValidationTexts == {"The scoring is reasonable.", Unavailable.generated_text}


NewTask == [pc |-> "new"]

InitCache ==
    /\ guest_profile = BaseProfile
    /\ host_analysis = ErrorHost
    /\ last = [op |-> "none"]
    /\ clock = 0
    /\ frames = <<>>
    /\ host_cache = [tracker \in {ScriptTracker} |-> <<>>]
    /\ tasks = [i \in Tasks |-> NewTask]
    /\ computed = {}
    /\ llm = Idle
    /\ Constructed

Untouched == UNCHANGED <<guest_profile, host_analysis, last, frames, llm, scorer, analyses>>

\* web_app.py, lines 307-329, up to the first wait inside step 1: the two
\* Ollama checks, a new tracker with an empty host_cache, the default channel
ReceiveRequest(i) ==
    /\ tasks[i].pc = "new"
    /\ \E ollama_running \in BOOLEAN, is_connected \in BOOLEAN,
          host_channel \in {"", DefaultChannel, OtherChannel} :
          IF ~ollama_running
          THEN /\ tasks' = [tasks EXCEPT ![i] =
                               [pc |-> "done", kind |-> "request",
                                result |-> [error |-> "Failed to start Ollama with multi-GPU support"]]]
               /\ UNCHANGED host_cache
          ELSE IF ~is_connected
          THEN /\ tasks' = [tasks EXCEPT ![i] =
                               [pc |-> "done", kind |-> "request",
                                result |-> [error |-> "LLM connection failed"]]]
               /\ UNCHANGED host_cache
          ELSE /\ tasks' = [tasks EXCEPT ![i] =
                               [pc |-> "step1", kind |-> "request", tracker |-> i,
                                host_channel_url |-> IF host_channel = "" THEN DefaultChannel
                                                     ELSE host_channel,
                                use_cache |-> TRUE]]
               /\ host_cache' = Put(host_cache, i, <<>>)
    /\ UNCHANGED <<clock, computed>>
    /\ Untouched

\* test_complete.py, lines 25-29: a call on the script's own tracker, up to
\* the first wait inside step 1
CallTracker(i) ==
    /\ tasks[i].pc = "new"
    /\ \E host_channel_url \in {DefaultChannel, OtherChannel}, use_cache \in BOOLEAN :
          tasks' = [tasks EXCEPT ![i] =
                       [pc |-> "step1", kind |-> "script", tracker |-> ScriptTracker,
                        host_channel_url |-> host_channel_url, use_cache |-> use_cache]]
    /\ UNCHANGED <<clock, host_cache, computed>>
    /\ Untouched

\* podcast_guest_tracker.py, lines 64-173: step 1 gets its answers and the
\* call runs to its return
CompleteAnalysis(i) ==
    /\ tasks[i].pc = "step1"
    /\ \E profile \in GuestStepOutcomes, findings \in ChannelFindings,
          llm_validation \in ValidationTexts :
          LET task == tasks[i]
          IN  \E call \in {analyze_podcast_guest_complete(
                               host_cache[task.tracker], profile, task.host_channel_url,
                               task.use_cache, findings, llm_validation, clock)} :
                /\ tasks' = [tasks EXCEPT ![i] = [pc |-> "done", kind |-> task.kind,
                                                  tracker |-> task.tracker,
                                                  host_channel_url |-> task.host_channel_url,
                                                  use_cache |-> task.use_cache,
                                                  steps |-> call.steps,
                                                  result |-> call.result]]
                /\ host_cache' = [host_cache EXCEPT ![task.tracker] = call.cache]
                /\ computed' =
                      IF call.analyzed
                      THEN computed \cup {[task |-> i, tracker |-> task.tracker,
                                           host_channel_url |-> task.host_channel_url,
                                           use_cache |-> task.use_cache, at |-> clock,
                                           failed |-> call.failed]}
                      ELSE computed
    /\ UNCHANGED clock
    /\ Untouched

\* half the lifetime of a cache entry passes
Tick ==
    /\ clock < MaxTicks * (TTL \div 2)
    /\ clock' = clock + TTL \div 2
    /\ UNCHANGED <<host_cache, tasks, computed>>
    /\ Untouched

NextCache ==
    \/ \E i \in Tasks : ReceiveRequest(i)
    \/ \E i \in Tasks : CallTracker(i)
    \/ \E i \in Tasks : CompleteAnalysis(i)
    \/ Tick

SpecCache == InitCache /\ [][NextCache]_vars

--------------------------------------------------------------------------
(* Properties of one caller's calls (specification Spec) *)

Overall == "calculate_overall_relevance_score"

\* the last call was calculate_overall_relevance_score and it returned
Returned == last.op = Overall /\ ~IsRaised(last.result)

\* the sum of score * weight over the returned breakdown, in hundredths
BreakdownSum(result) ==
    LET b == result.score_breakdown
    IN  b.topic_alignment.score * b.topic_alignment.weight
        + b.authority_score.score * b.authority_score.weight
        + b.audience_appeal.score * b.audience_appeal.weight
        + b.uniqueness_factor.score * b.uniqueness_factor.weight
        + b.engagement_potential.score * b.engagement_potential.weight

\* C1: the returned overall_relevance_score is the integer part of
\* topic_alignment*0.35 + authority_score*0.25 + audience_appeal*0.20
\* + uniqueness_factor*0.10 + engagement_potential*0.10, each weight being the
\* one found in the returned breakdown.
C1_OverallIsTruncatedSum ==
    Returned =>
        LET b == last.result.score_breakdown
            total == BreakdownSum(last.result)
        IN  /\ b.topic_alignment.weight = 35
            /\ b.authority_score.weight = 25
            /\ b.audience_appeal.weight = 20
            /\ b.uniqueness_factor.weight = 10
            /\ b.engagement_potential.weight = 10
            /\ last.result.overall_relevance_score * 100 <= total
            /\ total < (last.result.overall_relevance_score + 1) * 100

\* a returned analysis whose weighted sum has a fractional part of a half or more
C1_Witness ==
    /\ Returned
    /\ BreakdownSum(last.result) % 100 >= 50

\* the threshold table of the aggregator, on the integer score
LabelOf(score) ==
    IF score >= 80 THEN <<"HIGHLY_RECOMMENDED", "HIGH">>
    ELSE IF score >= 65 THEN <<"RECOMMENDED", "MEDIUM">>
    ELSE IF score >= 50 THEN <<"CONSIDER", "MEDIUM">>
    ELSE IF score >= 35 THEN <<"LOW_PRIORITY", "LOW">>
    ELSE <<"NOT_RECOMMENDED", "HIGH">>

\* C2: recommendation and confidence_level are the table's entry for the
\* returned integer overall_relevance_score, so the label taken from the
\* untruncated sum is the label of the truncated score.
C2_LabelFollowsScore ==
    Returned =>
        <<last.result.recommendation, last.result.confidence_level>>
            = LabelOf(last.result.overall_relevance_score)

\* a returned score one below a threshold whose untruncated sum is within a
\* half of the threshold
C2_Witness ==
    /\ Returned
    /\ last.result.overall_relevance_score \in {79, 64, 49, 34}
    /\ BreakdownSum(last.result) % 100 >= 50

\* the threshold values and the values one below each, as returned scores:
\* each of these is reachable
C2_Reaches80 == Returned /\ last.result.overall_relevance_score = 80
C2_Reaches79 == Returned /\ last.result.overall_relevance_score = 79
C2_Reaches65 == Returned /\ last.result.overall_relevance_score = 65
C2_Reaches64 == Returned /\ last.result.overall_relevance_score = 64
C2_Reaches50 == Returned /\ last.result.overall_relevance_score = 50
C2_Reaches49 == Returned /\ last.result.overall_relevance_score = 49
C2_Reaches35 == Returned /\ last.result.overall_relevance_score = 35
C2_Reaches34 == Returned /\ last.result.overall_relevance_score = 34

\* a result with its timestamp blanked
Untimed(result) == [result EXCEPT !.analysis_timestamp = 0]

\* C3: two calls of calculate_overall_relevance_score in a row on the same two
\* records return results that agree in every field but analysis_timestamp.
C3_SecondCallAgrees ==
    [][(/\ Returned
        /\ last'.op = Overall
        /\ clock' = clock + 1
        /\ ~IsRaised(last'.result))
       => Untimed(last'.result) = Untimed(last.result)]_vars

\* C4: no call changes the guest profile or the host analysis it is given.
C4_InputsUnchanged ==
    [][guest_profile' = guest_profile /\ host_analysis' = host_analysis]_vars

\* the uniqueness score the profile's own expertise areas call for
ExpectedUniqueness(profile) ==
    LET areas == Get(profile, "expertise_areas", <<>>)
    IN  Min(100, 70 + (IF AnyIn(niche_fields, lower(join(" ", areas))) THEN 20 ELSE 0)
                    + (IF Len(areas) >= 3 THEN 10 ELSE 0))

\* C5: the uniqueness_factor score in the returned breakdown is 70, plus 20
\* for a niche keyword in, plus 10 for three or more of, the expertise areas of
\* the profile as it was passed in, capped at 100, and equals what
\* calculate_uniqueness_score gives on that profile alone.
C5_UniquenessOfPassedProfile ==
    Returned =>
        /\ last.result.score_breakdown.uniqueness_factor.score = ExpectedUniqueness(last.guest)
        /\ last.result.score_breakdown.uniqueness_factor.score
              = calculate_uniqueness_score(last.guest).score

\* the host analysis with the same topics in the other of the two shapes
OtherShape(host) ==
    IF IsNested(host)
    THEN FlatHost(host.channel_dna.channel_dna.primary_topics,
                  host.channel_dna.success_patterns.high_performing_topics,
                  host.performance_metrics.average_views)
    ELSE NestedHost(host.channel_dna.primary_topics,
                    host.channel_dna.success_patterns.high_performing_topics,
                    host.performance_metrics.average_views)

\* C6: a host analysis gives the same topic-alignment score and matches as the
\* host analysis that carries the same primary and high-performing topics in
\* the other shape (flat or nested).
C6_ShapeIndependent ==
    (last.op = "calculate_topic_alignment_score" /\ "channel_dna" \in DOMAIN last.host) =>
        LET other == calculate_topic_alignment_score(last.guest, OtherShape(last.host)).result
        IN  /\ other.score = last.result.score
            /\ other.topic_matches = last.result.topic_matches

\* C9: no call of a factor scorer or of calculate_overall_relevance_score
\* raises, whatever is missing, empty or null in its two arguments.
C9_NeverRaises == last.op # "none" => ~IsRaised(last.result)

Recommendations ==
    {"HIGHLY_RECOMMENDED", "RECOMMENDED", "CONSIDER", "LOW_PRIORITY", "NOT_RECOMMENDED"}

\* C10: a returned analysis has all five sub-scores, each an integer in
\* 0..100, an overall score in 0..100 and one of the five recommendations;
\* a factor scorer called alone returns a score in 0..100 as well.
C10_ScoresInRange ==
    /\ Returned =>
          /\ DOMAIN last.result.score_breakdown
                = {"topic_alignment", "authority_score", "audience_appeal",
                   "uniqueness_factor", "engagement_potential"}
          /\ \A f \in DOMAIN last.result.score_breakdown :
                last.result.score_breakdown[f].score \in 0..100
          /\ last.result.overall_relevance_score \in 0..100
          /\ last.result.recommendation \in Recommendations
    /\ (last.op \notin {"none", Overall} /\ ~IsRaised(last.result)) =>
          last.result.score \in 0..100

\* a returned analysis in which the topic score sits at the cap
C10_Witness ==
    /\ Returned
    /\ last.result.score_breakdown.topic_alignment.score = 100
    /\ Len(last.result.score_breakdown.topic_alignment.topic_matches) > 0

TopicCall == last.op = "calculate_topic_alignment_score" /\ ~IsRaised(last.result)

\* the guest's terms: expertise areas, then interview topics, empty ones dropped
GuestTerms(profile) ==
    LowerTruthy(Get(profile, "expertise_areas", <<>>)
                \o Get(profile, "potential_interview_topics", <<>>))

\* the host's terms: the primary topics of its ChannelDNA, then the
\* high-performing topics of its success patterns, empty ones dropped
HostTerms(host) ==
    LET outer == Get(host, "channel_dna", [x \in {} |-> x])
    IN  LowerTruthy(Get(UnwrapChannelDna(host), "primary_topics", <<>>)
                    \o Get(Get(outer, "success_patterns", [x \in {} |-> x]),
                           "high_performing_topics", <<>>))

Neutral == "Insufficient topic data for comparison"

\* C11: calculate_topic_alignment_score returns score 50 with no matches
\* when the guest's merged term list or the host's merged term list is empty,
\* and takes the matching path in every other case.
C11_NeutralIffEmpty ==
    TopicCall =>
        IF GuestTerms(last.guest) = <<>> \/ HostTerms(last.host) = <<>>
        THEN /\ last.result.score = 50
             /\ last.result.topic_matches = <<>>
             /\ last.result.reasoning = Neutral
        ELSE last.result.reasoning # Neutral

--------------------------------------------------------------------------
(* Properties of two concurrent calls (specification SpecThreads) *)

\* the pairs of one term of the first list and one of the second in which one
\* term is a substring of the other
SubstringPairs(guest_terms, host_terms) ==
    {p \in (1..Len(guest_terms)) \X (1..Len(host_terms)) :
        \/ Contains(guest_terms[p[1]], host_terms[p[2]])
        \/ Contains(host_terms[p[2]], guest_terms[p[1]])}

EqualPairs(guest_terms, host_terms) ==
    {p \in SubstringPairs(guest_terms, host_terms) : guest_terms[p[1]] = host_terms[p[2]]}

\* the integer part of min(100, min(100, 100*M / longest) + 10*E)
ExactTopicScore(M, E, longest) == Min(100, Min(100, (100 * M) \div longest) + 10 * E)

\* C12: when both term lists are non-empty, the topic-alignment score is the
\* integer part of min(100, min(100, 100*M / max(|guest|, |host|)) + 10*E),
\* M the pairs in which one lower-cased term is a substring of the other and
\* E those of them whose two terms are equal.
C12_ScoreFromPairs ==
    (TopicCall /\ GuestTerms(last.guest) # <<>> /\ HostTerms(last.host) # <<>>) =>
        last.result.score =
            ExactTopicScore(Cardinality(SubstringPairs(GuestTerms(last.guest), HostTerms(last.host))),
                            Cardinality(EqualPairs(GuestTerms(last.guest), HostTerms(last.host))),
                            Max(Len(GuestTerms(last.guest)), Len(HostTerms(last.host))))

\* s contains one of the keywords, whatever its case
MentionsAny(keywords, s) == \E k \in keywords : Contains(lower(s), k)

AuthorityCall == last.op = "calculate_authority_score" /\ ~IsRaised(last.result)

LevelBase(level) ==
    CASE level = "HIGH" -> 90
      [] level = "MEDIUM" -> 65
      [] level = "LOW" -> 40
      [] OTHER -> 50

IndicatorsOf(profile) == Get(profile, "authority_indicators", <<>>)

\* C13: calculate_authority_score returns min(100, base + min(5n, 20) + k):
\* base 90/65/40/50 for HIGH/MEDIUM/LOW/UNKNOWN and 50 for any other or
\* missing level, n the number of indicators, k 10 when some indicator
\* contains phd, ceo, founder, author, professor or expert in any case.
C13_AuthorityFormula ==
    AuthorityCall =>
        LET indicators == IndicatorsOf(last.guest)
            k == IF \E i \in 1..Len(indicators) :
                        MentionsAny({"phd", "ceo", "founder", "author", "professor", "expert"}, indicators[i])
                 THEN 10 ELSE 0
        IN  last.result.score =
                Min(100, LevelBase(Get(last.guest, "estimated_authority_level", "UNKNOWN"))
                         + Min(5 * Len(indicators), 20) + k)

\* HIGH with the single indicator "PhD" gave 100
C13_Witness ==
    /\ AuthorityCall
    /\ Get(last.guest, "estimated_authority_level", "UNKNOWN") = "HIGH"
    /\ IndicatorsOf(last.guest) = <<"PhD">>
    /\ last.result.score = 100

AppealCall == last.op = "calculate_audience_appeal_score" /\ ~IsRaised(last.result)

IndustryBase(industry) ==
    CASE lower(industry) = "technology" -> 85
      [] lower(industry) = "business" -> 80
      [] lower(industry) = "entertainment" -> 90
      [] lower(industry) = "education" -> 70
      [] lower(industry) = "healthcare" -> 65
      [] lower(industry) = "finance" -> 75
      [] OTHER -> 60

AverageViews(host) == Get(Get(host, "performance_metrics", [x \in {} |-> x]), "average_views", 0)

\* C14: calculate_audience_appeal_score returns the industry base, plus 15
\* for a designation containing ceo, founder, celebrity, author or influencer,
\* plus 5 for average views above 100000, minus 5 for average views below
\* 10000 (0 when the host has no metrics), clamped to 0..100.
C14_AppealFormula ==
    AppealCall =>
        LET views == AverageViews(last.host)
            role == IF MentionsAny({"ceo", "founder", "celebrity", "author", "influencer"},
                                   Get(last.guest, "current_designation", "Unknown"))
                    THEN 15 ELSE 0
            adjustment == IF views > 100000 THEN 5 ELSE IF views < 10000 THEN -5 ELSE 0
        IN  last.result.score =
                Max(0, Min(100, IndustryBase(Get(last.guest, "industry", "Unknown")) + role + adjustment))

\* Technology / Senior Engineer / 500000 views gave 90
C14_Witness ==
    /\ AppealCall
    /\ Get(last.guest, "industry", "Unknown") = "Technology"
    /\ Get(last.guest, "current_designation", "Unknown") = "Senior Engineer"
    /\ AverageViews(last.host) = 500000
    /\ last.result.score = 90

EngagementCall == last.op = "calculate_engagement_potential_score" /\ ~IsRaised(last.result)

\* a null value counts as an empty one
PlatformBonus(value) ==
    IF value = None \/ value = "" \/ value = "unknown" THEN 0
    ELSE IF OnlyDigits(value) = "" THEN 5
    ELSE IF int(OnlyDigits(value)) > 100000 THEN 15
    ELSE IF int(OnlyDigits(value)) > 10000 THEN 10
    ELSE IF int(OnlyDigits(value)) > 1000 THEN 5
    ELSE 0

RECURSIVE BonusSum(_)
BonusSum(following) ==
    IF following = <<>> THEN 0 ELSE PlatformBonus(following[1][2]) + BonusSum(Tail(following))

\* C15: calculate_engagement_potential_score returns min(100, 60 + 5T + S):
\* T the interview topics containing politics, technology, business,
\* controversy or innovation, S the sum over the platforms of 15, 10, 5 or 0
\* for a follower number above 100000, 10000, 1000 or not, 5 for a value
\* without digits, 0 for an empty or "unknown" value.
C15_EngagementFormula ==
    EngagementCall =>
        LET topics == Get(last.guest, "potential_interview_topics", <<>>)
            T == Cardinality({i \in 1..Len(topics) :
                    MentionsAny({"politics", "technology", "business", "controversy", "innovation"}, topics[i])})
        IN  last.result.score =
                Min(100, 60 + 5 * T + BonusSum(Get(last.guest, "social_following", <<>>)))

\* {"twitter": "150000"} with no matching topic gave 75
C15_Witness ==
    /\ EngagementCall
    /\ Get(last.guest, "social_following", <<>>) = << <<"twitter", "150000">> >>
    /\ Get(last.guest, "potential_interview_topics", <<>>) = <<"Art">>
    /\ last.result.score = 75

\* the five factor scores of a result, by the name each is listed under
FactorScores(result) ==
    LET b == result.score_breakdown
    IN  [name \in {"Topic Alignment", "Authority", "Audience Appeal", "Uniqueness", "Engagement Potential"} |->
            CASE name = "Topic Alignment" -> b.topic_alignment.score
              [] name = "Authority" -> b.authority_score.score
              [] name = "Audience Appeal" -> b.audience_appeal.score
              [] name = "Uniqueness" -> b.uniqueness_factor.score
              [] name = "Engagement Potential" -> b.engagement_potential.score]

\* the entries of a list, and whether none occurs twice
Entries(list) == {list[i] : i \in 1..Len(list)}
NoRepeats(list) == Cardinality(Entries(list)) = Len(list)

\* "<Name>: <score>/100"
FactorLine(scores, name) == name \o ": " \o str(scores[name]) \o "/100"

DecisionCall == last.op = "extract_key_decision_factors"

\* "<Factor Title>: <score>/100" for a key of score_breakdown
TitleLine(analysis, key) ==
    FactorTitle[key] \o ": " \o str(analysis.score_breakdown[key].score) \o "/100"

\* the score of the factor a line was written for
LineScore(analysis, line) ==
    analysis.score_breakdown[CHOOSE key \in DOMAIN FactorTitle : TitleLine(analysis, key) = line].score

ConcernDue(analysis) ==
    analysis.overall_relevance_score < 60 /\ analysis.areas_of_concern # <<>>

\* C17: extract_key_decision_factors returns, in non-increasing score order,
\* those of the three highest-scoring factors whose score is above 60,
\* followed by one "Main concern: <first area_of_concern>" entry if and only
\* if the overall score is below 60 and there is a concern; never more than
\* four entries.
C17_KeyDecisionFactors ==
    DecisionCall =>
        LET analysis == last.analysis
            keys == DOMAIN FactorTitle
            score(key) == analysis.score_breakdown[key].score
            count == Len(last.result) - (IF ConcernDue(analysis) THEN 1 ELSE 0)
            factors == SubSeq(last.result, 1, count)
        IN  /\ count >= 0
            /\ Len(last.result) <= 4
            /\ \E top \in SUBSET keys :
                  /\ Cardinality(top) = 3
                  /\ \A a \in top : \A b \in keys \ top : score(a) >= score(b)
                  /\ Entries(factors) = {TitleLine(analysis, key) : key \in {k \in top : score(k) > 60}}
            /\ NoRepeats(factors)
            /\ \A i \in 1..count : \A j \in (i + 1)..count :
                  LineScore(analysis, factors[i]) >= LineScore(analysis, factors[j])
            /\ ConcernDue(analysis) =>
                  last.result[Len(last.result)] = "Main concern: " \o analysis.areas_of_concern[1]

\* three factors above 60 were listed
C17_Witness ==
    /\ DecisionCall
    /\ Len(last.result) = 3
    /\ ~ConcernDue(last.analysis)

\* a low overall score had its main concern listed
C17_WitnessConcern ==
    /\ DecisionCall
    /\ ConcernDue(last.analysis)
    /\ Len(last.result) >= 2

ValidationCall == last.op = "call_llm_for_scoring_validation"

Answered(outcome) ==
    /\ outcome.kind = "response"
    /\ outcome.status_code = 200
    /\ outcome.body # NotJson
    /\ "response" \in DOMAIN outcome.body

\* C18: call_llm_for_scoring_validation never raises; when the collaborator
\* answers it returns the collaborator's text unchanged, and when every
\* attempt fails it returns one fixed failure string, whatever the kinds and
\* the order of the failures.
C18_ValidationNeverRaises ==
    ValidationCall =>
        /\ ~last.raised
        /\ \A i \in 1..Len(last.outcomes) :
              Answered(last.outcomes[i]) => last.result = last.outcomes[i].body.response
        /\ (Len(last.outcomes) = max_retries /\ \A i \in 1..max_retries : AttemptFailed(last.outcomes[i]))
              => last.result = "LLM analysis temporarily unavailable."

\* what the claim says apart from "never raises"
C18_TextOrFixedString ==
    (ValidationCall /\ ~last.raised) =>
        /\ \A i \in 1..Len(last.outcomes) :
              Answered(last.outcomes[i]) => last.result = last.outcomes[i].body.response
        /\ (Len(last.outcomes) = max_retries /\ \A i \in 1..max_retries : AttemptFailed(last.outcomes[i]))
              => last.result = "LLM analysis temporarily unavailable."

Status200(outcome) == outcome.kind = "response" /\ outcome.status_code = 200

\* C20: generate_text makes at most 3 attempts, none after the first attempt
\* that returned status 200, sleeps the same 5 seconds between two
\* consecutive attempts and does not sleep after the last one.
C20_BoundedRetries ==
    llm # Idle =>
        /\ Len(llm.outcomes) <= 3
        /\ \A i \in 1..(Len(llm.outcomes) - 1) : ~Status200(llm.outcomes[i])
        /\ \A i \in 1..Len(llm.slept) : llm.slept[i] = 5
        /\ llm.pc = "returned" => Len(llm.slept) = Len(llm.outcomes) - 1

\* the same without the attempts that follow a status 200 whose body could
\* not be read
C20_ExceptAfterUnreadable200 ==
    llm # Idle =>
        /\ Len(llm.outcomes) <= 3
        /\ \A i \in 1..(Len(llm.outcomes) - 1) :
              Status200(llm.outcomes[i]) => llm.outcomes[i].body = NotJson
        /\ \A i \in 1..Len(llm.slept) : llm.slept[i] = 5
        /\ llm.pc = "returned" => Len(llm.slept) = Len(llm.outcomes) - 1

\* a request that ended with a scored result
Scored(i) == tasks[i].pc = "done" /\ "relevance_analysis" \in DOMAIN tasks[i].result

\* the numbers and labels of a final result
Verdict(result) ==
    [overall_relevance_score |-> result.relevance_analysis.overall_relevance_score,
     recommendation |-> result.relevance_analysis.recommendation,
     confidence_level |-> result.relevance_analysis.confidence_level,
     score_breakdown |-> result.relevance_analysis.score_breakdown,
     summary |-> [overall_score |-> result.recommendation_summary.overall_score,
                  recommendation |-> result.recommendation_summary.recommendation,
                  confidence |-> result.recommendation_summary.confidence]]

SameInputs(i, j) ==
    /\ tasks[i].result.guest_profile = tasks[j].result.guest_profile
    /\ tasks[i].result.host_analysis = tasks[j].result.host_analysis

\* C19: two runs of the scoring and validation steps on the same guest
\* profile and host analysis give the same overall score, recommendation,
\* confidence level and score breakdown in the final result, whatever the
\* validation collaborator returned in each.
C19_ValidationAdvisory ==
    \A i \in DOMAIN tasks : \A j \in DOMAIN tasks :
        (Scored(i) /\ Scored(j) /\ SameInputs(i, j)) =>
            Verdict(tasks[i].result) = Verdict(tasks[j].result)

\* two such runs, one validated by the model's text and one by the text of
\* the failure record
C19_Witness ==
    \E i \in DOMAIN tasks : \E j \in DOMAIN tasks :
        /\ Scored(i) /\ Scored(j) /\ SameInputs(i, j)
        /\ tasks[i].result.llm_validation = "The scoring is reasonable."
        /\ tasks[j].result.llm_validation = "LLM analysis temporarily unavailable."

\* config_setup.py, lines 19-23: the weights of the configuration, in
\* hundredths, under the keys the scorer uses
ConfigWeights ==
    [topic_alignment |-> 35, authority_score |-> 25, audience_appeal |-> 20,
     uniqueness_factor |-> 10, engagement_potential |-> 10]

Factors == DOMAIN ConfigWeights

RECURSIVE SumOver(_, _)
SumOver(weights, keys) ==
    IF keys = {} THEN 0
    ELSE LET key == CHOOSE x \in keys : TRUE
         IN  weights[key] + SumOver(weights, keys \ {key})

\* C22: the scorer's five weights are 0.35, 0.25, 0.20, 0.10 and 0.10 (35,
\* 25, 20, 10 and 10 hundredths), sum to 1.0 and stay so through every
\* scoring, validation and extraction call; every kept analysis reports them
\* as its scoring_weights, and each of its factor results reports the weight
\* of its own factor.
C22_WeightsFixed ==
    /\ scorer.scoring_weights = ConfigWeights
    /\ SumOver(scorer.scoring_weights, DOMAIN scorer.scoring_weights) = 100
    /\ \A k \in DOMAIN analyses :
          /\ Current(k).scoring_weights = ConfigWeights
          /\ DOMAIN Current(k).score_breakdown = Factors
          /\ \A factor \in Factors :
                Current(k).score_breakdown[factor].weight = ConfigWeights[factor]

\* two analyses are kept, one of them of other inputs, and the key decision
\* factors of one were extracted after a validation had run
C22_Witness ==
    /\ Len(analyses) = 2
    /\ \E k \in DOMAIN analyses : analyses[k].on = "other"
    /\ last.op = "extract_key_decision_factors"
    /\ clock > 2

\* C21: an analysis calculate_overall_relevance_score has returned reads
\* the same ever after, in every field down to the evidence lists of its
\* score_breakdown and its scoring_weights, whatever validation attempts,
\* extractions, reports and further scoring calls follow.
C21_ReturnedAnalysisFixed ==
    \A k \in DOMAIN analyses : Current(k) = analyses[k].returned

\* an analysis kept from a call on the caller's objects, after which a
\* validation with a retry ran and a second scoring call lengthened the
\* guest's expertise_areas
C21_Witness ==
    /\ Len(analyses) = 2
    /\ analyses[1].on = "same"
    /\ analyses[2].on = "same"
    /\ analyses[1].guest.expertise_areas # guest_profile.expertise_areas
    /\ last.op = "call_llm_for_scoring_validation"
    /\ Len(last.slept) > 0

\* the primary topics of a host's ChannelDNA, flat or nested
PrimaryTopics(host) == Get(UnwrapChannelDna(host), "primary_topics", <<>>)

\* C24: the digest call_llm_for_scoring_validation builds names the first
\* three primary topics of the host's ChannelDNA, whether it arrives flat
\* or nested, and shows 'Unknown' only for a host without primary topics.
C24_DigestNamesHostTopics ==
    (ValidationCall /\ ~last.raised) =>
        /\ PrimaryTopics(last.host) # <<>> =>
              last.prompt.channel_topics_str = join(", ", Take(PrimaryTopics(last.host), 3))
        /\ last.prompt.channel_topics_str = "Unknown" => PrimaryTopics(last.host) = <<>>

\* what holds of every call: the digest of a nested ChannelDNA names its
\* first three primary topics
C24_DigestOfNested ==
    (ValidationCall /\ ~last.raised /\ IsNested(last.host)) =>
        last.prompt.channel_topics_str = join(", ", Take(PrimaryTopics(last.host), 3))

\* the two term lists a call of calculate_topic_alignment_score compared
\* (lines 41-42)
ComparedGuestTerms == LowerTruthy(GuestTopicsStep(last.guest).topics)

ComparedHostTerms == LowerTruthy(HostTopicsStep(last.host).topics)

\* C25: on the matching path the reasoning of calculate_topic_alignment_score
\* gives the number of matches and, after 'out of', the number the score was
\* divided by, the length of the longer of the two term lists.
C25_ReasoningStatesDenominator ==
    (TopicCall /\ last.result.reasoning # Neutral) =>
        last.result.reasoning =
            "Found " \o str(Cardinality(SubstringPairs(ComparedGuestTerms, ComparedHostTerms)))
            \o " topic alignments out of "
            \o str(Max(Len(ComparedGuestTerms), Len(ComparedHostTerms))) \o " guest topics"

\* what holds of every call: the number after 'out of' is the number of the
\* guest's terms
C25_ReasoningStatesGuestTerms ==
    (TopicCall /\ last.result.reasoning # Neutral) =>
        last.result.reasoning =
            "Found " \o str(Cardinality(SubstringPairs(ComparedGuestTerms, ComparedHostTerms)))
            \o " topic alignments out of " \o str(Len(ComparedGuestTerms)) \o " guest topics"

\* the entries of every tracker's host_cache, with tracker and URL
CacheEntries ==
    UNION {{[tracker |-> tracker, url |-> url, entry |-> host_cache[tracker][url]] :
                url \in DOMAIN host_cache[tracker]} : tracker \in DOMAIN host_cache}

\* request i ended with a scored result and was served from the cache
ServedFromCache(i) ==
    /\ Scored(i)
    /\ tasks[i].use_cache
    /\ ~\E run \in computed : run.task = i

\* request i ended with a scored result for an analysis it computed and stored
WroteCache(i) ==
    /\ Scored(i)
    /\ tasks[i].use_cache
    /\ \E run \in computed : run.task = i

TopicAlignmentOf(i) == tasks[i].result.relevance_analysis.score_breakdown.topic_alignment

\* C26: the data of a cache entry is the host analysis analyze_host_channel
\* returned when the entry was written, with its topic lists as they were,
\* and a request served from the cache gives a guest profile the topic
\* alignment score the request that wrote the entry gave it.
C26_CachedAnalysisFixed ==
    /\ \A cached \in CacheEntries :
          cached.entry.data \in
              {analyze_host_channel(cached.url, findings, cached.entry.timestamp) :
                  findings \in ChannelFindings}
    /\ \A i \in DOMAIN tasks : \A j \in DOMAIN tasks :
          (/\ WroteCache(i) /\ ServedFromCache(j)
           /\ tasks[i].tracker = tasks[j].tracker
           /\ tasks[i].host_channel_url = tasks[j].host_channel_url
           /\ tasks[i].result.guest_profile = tasks[j].result.guest_profile)
          => TopicAlignmentOf(i).score = TopicAlignmentOf(j).score

\* what holds in every state: the claim for an analysis whose ChannelDNA is
\* nested
C26_CachedNestedFixed ==
    \A cached \in CacheEntries :
        IsNested(cached.entry.data) =>
            cached.entry.data \in
                {analyze_host_channel(cached.url, findings, cached.entry.timestamp) :
                    findings \in ChannelFindings}

\* request i ends in this step
Returns(i) == tasks[i].pc = "step1" /\ tasks'[i].pc = "done"

\* the run of analyze_host_channel request i makes in this step
RunOf(i) == {run \in computed' \ computed : run.task = i /\ run.at = clock}

\* request i ended with the record of a failure of step 1
GuestStepFailed(i) ==
    /\ tasks[i].pc = "done"
    /\ "error" \in DOMAIN tasks[i].result
    /\ tasks[i].result.error = GuestStepRaised.raised

\* request i is given a host analysis with an 'error' key in this step
HostAnalysisFailed(i) == \E run \in RunOf(i) : run.failed

\* every entry has no 'error' key and the time of a call with use_cache
\* true that computed an analysis of its URL on its tracker
EntriesStoredOnSuccess ==
    \A cached \in CacheEntries :
        /\ "error" \notin DOMAIN cached.entry.data
        /\ \E run \in computed :
              /\ run.tracker = cached.tracker
              /\ run.host_channel_url = cached.url
              /\ run.use_cache
              /\ run.at = cached.entry.timestamp

\* a call given a failed host analysis leaves host_cache as it was, and a
\* call with use_cache false leaves host_cache as it was and, when it comes
\* to step 2, runs the analysis itself
CacheLeftAlone ==
    \A i \in Tasks :
        Returns(i) =>
            /\ HostAnalysisFailed(i) => host_cache' = host_cache
            /\ ~tasks[i].use_cache =>
                  /\ host_cache' = host_cache
                  /\ RunOf(i) # {} \/ GuestStepFailed(i)'

\* C27: every entry of host_cache is a host analysis without an 'error' key,
\* stored by a call with use_cache true; a failed host analysis is never
\* stored and leaves an existing entry as it was; a call with use_cache
\* false neither reads nor writes host_cache.
C27_CacheHoldsSuccesses == []EntriesStoredOnSuccess /\ [][CacheLeftAlone]_vars

\* an entry written at time 0 is still there after a call with use_cache
\* true found it expired and was given a failed analysis
C27_Witness ==
    \E cached \in CacheEntries : \E i \in Tasks :
        /\ cached.entry.timestamp = 0
        /\ tasks[i].pc = "done"
        /\ "use_cache" \in DOMAIN tasks[i]
        /\ tasks[i].use_cache
        /\ tasks[i].tracker = cached.tracker
        /\ tasks[i].host_channel_url = cached.url
        /\ \E run \in computed : run.task = i /\ run.at = TTL /\ run.failed

\* an entry is there after a call with use_cache false for its URL on its
\* tracker returned a scored result
C27_WitnessUncached ==
    \E cached \in CacheEntries : \E i \in Tasks :
        /\ tasks[i].pc = "done"
        /\ "use_cache" \in DOMAIN tasks[i]
        /\ ~tasks[i].use_cache
        /\ tasks[i].tracker = cached.tracker
        /\ tasks[i].host_channel_url = cached.url
        /\ Scored(i)

\* the age, when request i returned, of the host analysis it was given
ServedAge(i) ==
    tasks[i].result.analysis_metadata.analysis_timestamp
        - tasks[i].result.host_analysis.analysis_timestamp

\* every entry carries the time its analysis was computed, and every request
\* that returned a result was given an analysis younger than 86400 seconds
ServedFresh ==
    /\ \A cached \in CacheEntries :
          cached.entry.timestamp = cached.entry.data.analysis_timestamp
    /\ \A i \in Tasks :
          (tasks[i].pc = "done" /\ "host_analysis" \in DOMAIN tasks[i].result) =>
              ServedAge(i) < 86400

\* a returning call with use_cache true that comes to step 2 and meets an
\* entry aged 86400 seconds or more runs the analysis and, given a
\* successful one, stores it
\* with the current time; a call that ran no analysis leaves every
\* timestamp as it was
ExpiredRecomputed ==
    \A i \in Tasks :
        Returns(i) =>
            LET cache == host_cache[tasks[i].tracker]
                url == tasks[i].host_channel_url
                ran == RunOf(i) # {}
            IN  /\ (/\ tasks[i].use_cache
                     /\ ~GuestStepFailed(i)'
                     /\ url \in DOMAIN cache
                     /\ clock - cache[url].timestamp >= 86400) =>
                        /\ ran
                        /\ IF HostAnalysisFailed(i)
                           THEN host_cache' = host_cache
                           ELSE host_cache'[tasks[i].tracker][url].timestamp = clock
                /\ ~ran =>
                      /\ DOMAIN host_cache'[tasks[i].tracker] = DOMAIN cache
                      /\ \A u \in DOMAIN cache :
                            host_cache'[tasks[i].tracker][u].timestamp = cache[u].timestamp

\* C28: a cached host analysis is used only when its age is strictly less
\* than 86400 seconds and a hit leaves the entry's timestamp as it was, so no
\* call is given data computed 86400 seconds or more earlier; an entry at or
\* past that age is recomputed and, on success, replaced with a new
\* timestamp.
C28_FixedLifetime == []ServedFresh /\ [][ExpiredRecomputed]_vars

\* an entry written at time 0 was replaced at time 86400 exactly
C28_Witness ==
    \E cached \in CacheEntries :
        /\ cached.entry.timestamp = 86400
        /\ \E run \in computed :
              /\ run.tracker = cached.tracker /\ run.host_channel_url = cached.url
              /\ run.use_cache /\ run.at = 0
        /\ \E i \in Tasks : WroteCache(i) /\ tasks[i].tracker = cached.tracker
                              /\ tasks[i].host_channel_url = cached.url
                              /\ ServedAge(i) = 0
                              /\ tasks[i].result.analysis_metadata.analysis_timestamp = 86400

\* a request was served an entry 43200 seconds old
C28_WitnessHit ==
    \E i \in Tasks : ServedFromCache(i) /\ ServedAge(i) = 43200

UniquenessCall == last.op = "calculate_uniqueness_score" /\ ~IsRaised(last.result)

\* the least score each factor can return
Floors ==
    [topic_alignment |-> 0, authority_score |-> 40, audience_appeal |-> 55,
     uniqueness_factor |-> 70, engagement_potential |-> 60]

\* C29: authority is at least 40, audience appeal at least 55, uniqueness at
\* least 70 and engagement potential at least 60, in a factor's own result
\* and in a returned analysis; the overall score is at least 34, the concerns
\* name only Topic Alignment and Authority, and NOT_RECOMMENDED comes with
\* an overall score of exactly 34.
C29_ScoreFloors ==
    /\ AuthorityCall => last.result.score >= Floors.authority_score
    /\ AppealCall => last.result.score >= Floors.audience_appeal
    /\ UniquenessCall => last.result.score >= Floors.uniqueness_factor
    /\ EngagementCall => last.result.score >= Floors.engagement_potential
    /\ Returned =>
          /\ \A f \in DOMAIN Floors : last.result.score_breakdown[f].score >= Floors[f]
          /\ last.result.overall_relevance_score >= 34
          /\ Entries(last.result.areas_of_concern)
                \subseteq {FactorLine(FactorScores(last.result), name) :
                              name \in {"Topic Alignment", "Authority"}}
          /\ last.result.recommendation = "NOT_RECOMMENDED" =>
                last.result.overall_relevance_score = 34

\* an analysis with every factor at its floor: NOT_RECOMMENDED at 34, with
\* both possible concerns
C29_Witness ==
    /\ Returned
    /\ \A f \in DOMAIN Floors : last.result.score_breakdown[f].score = Floors[f]
    /\ last.result.overall_relevance_score = 34
    /\ last.result.recommendation = "NOT_RECOMMENDED"
    /\ Len(last.result.areas_of_concern) = 2

\* request i is a call of analyze_podcast_guest_complete that has returned
TrackerReturned(i) == tasks[i].pc = "done" /\ "steps" \in DOMAIN tasks[i]

\* C30: analyze_podcast_guest_complete returns a record whatever a step
\* raises, and runs guest profile, host analysis, scoring, validation and
\* report in this order; when a step raised, the record has 'error', status
\* FAILED and no recommendation_summary; otherwise the summary's
\* overall_score, recommendation and confidence are overall_relevance_score,
\* recommendation and confidence_level of the returned relevance_analysis.
C30_TrackerReturnsRecord ==
    \A i \in Tasks :
        TrackerReturned(i) =>
            LET result == tasks[i].result
                steps == tasks[i].steps
            IN  /\ ~IsRaised(result)
                /\ steps = Take(AnalysisSteps, Len(steps))
                /\ (\E run \in computed : run.task = i) => Len(steps) >= 2
                /\ IF steps # AnalysisSteps
                   THEN /\ "error" \in DOMAIN result
                        /\ result.analysis_metadata.status = "FAILED"
                        /\ "recommendation_summary" \notin DOMAIN result
                   ELSE /\ "error" \notin DOMAIN result
                        /\ result.recommendation_summary.overall_score
                              = result.relevance_analysis.overall_relevance_score
                        /\ result.recommendation_summary.recommendation
                              = result.relevance_analysis.recommendation
                        /\ result.recommendation_summary.confidence
                              = result.relevance_analysis.confidence_level

\* one call failed in its report, after scoring and validation, and another
\* returned a summary
C30_Witness ==
    \E i \in Tasks : \E j \in Tasks :
        /\ TrackerReturned(i)
        /\ tasks[i].steps = Take(AnalysisSteps, 4)
        /\ tasks[i].result.analysis_metadata.status = "FAILED"
        /\ TrackerReturned(j)
        /\ tasks[j].steps = AnalysisSteps
        /\ tasks[j].result.recommendation_summary.recommendation = "HIGHLY_RECOMMENDED"

\* a call failed after n steps
C30_FailedAfter0 == \E i \in Tasks : TrackerReturned(i) /\ Len(tasks[i].steps) = 0
C30_FailedAfter2 == \E i \in Tasks : TrackerReturned(i) /\ Len(tasks[i].steps) = 2
C30_FailedAfter3 == \E i \in Tasks : TrackerReturned(i) /\ Len(tasks[i].steps) = 3

StatisticsCall == last.op = "calculate_statistics"

\* the entries that are present and strictly positive
Remaining(numbers) == SelectSeq(numbers, LAMBDA entry : ~entry.null /\ entry.tenths > 0)

\* the entry at place p of the entries in ascending order
Ranked(entries, p) ==
    LET e == CHOOSE i \in DOMAIN entries :
                 /\ Cardinality({j \in DOMAIN entries : entries[j].tenths < entries[i].tenths}) < p
                 /\ p <= Cardinality({j \in DOMAIN entries : entries[j].tenths <= entries[i].tenths})
    IN  entries[e]

FloatEq(x, y) == FloatLeq(x, y) /\ FloatLeq(y, x)

\* max, min and median are those of the remaining entries (twice the median
\* of an even number of entries is the sum of the two middle ones), and all
\* four values are 0 when no entry remains
ExtremesAndMedian ==
    LET entries == Remaining(last.numbers)
        n == Len(entries)
        result == last.result
    IN  IF n = 0
        THEN \A key \in {"mean", "median", "max", "min"} : FloatEq(result[key], Zero)
        ELSE /\ FloatEq(result.max, FloatOf(Ranked(entries, n)))
             /\ FloatEq(result.min, FloatOf(Ranked(entries, 1)))
             /\ IF n % 2 = 1
                THEN FloatEq(result.median, FloatOf(Ranked(entries, (n + 1) \div 2)))
                ELSE FloatEq(FloatPlus(result.median, result.median),
                             FloatPlus(FloatOf(Ranked(entries, n \div 2)),
                                       FloatOf(Ranked(entries, n \div 2 + 1))))
             /\ FloatLeq(result.min, result.median)
             /\ FloatLeq(result.median, result.max)

\* C23: calculate_statistics drops the entries that are None or not strictly
\* positive and returns max, min and median of the rest (the middle entry,
\* or the average of the two middle ones), 0 four times when nothing is
\* left, and otherwise a mean with min <= mean <= max.
C23_StatisticsOfPositives ==
    StatisticsCall =>
        /\ ExtremesAndMedian
        /\ Remaining(last.numbers) # <<>> =>
              /\ FloatLeq(last.result.min, last.result.mean)
              /\ FloatLeq(last.result.mean, last.result.max)

\* what holds of every call: all of the above but the place of the mean
C23_ExtremesAndMedian == StatisticsCall => ExtremesAndMedian

\* what a single call run alone returns on the records thread t was given
AloneResult(t) ==
    Untimed(calculate_overall_relevance_score(frames[t].given.guest,
                                              frames[t].given.host, 0).result)

\* a call that ran while the other thread was not inside a call returns
\* what calculate_overall_relevance_score returns in one step
ThreadAloneAgrees ==
    \A t \in DOMAIN frames :
        (frames[t].pc = "done" /\ \A u \in DOMAIN frames \ {t} : frames[u].pc = "idle")
        => Untimed(frames[t].result) = AloneResult(t)

\* C7: each of two concurrent calls of calculate_overall_relevance_score on
\* the same records returns what a single call run alone on the records it
\* was given returns, whatever the interleaving
C7_InterleavingInvisible ==
    \A t \in DOMAIN frames :
        frames[t].pc = "done" => Untimed(frames[t].result) = AloneResult(t)

--------------------------------------------------------------------------
(* Properties of concurrent analysis requests (specification SpecCache) *)

\* the runs of analyze_host_channel made for callers with caching enabled
CachedRuns == {run \in computed : run.use_cache}

\* C8: for callers with caching enabled, analyze_host_channel runs at most
\* once per channel URL per TTL window: two runs for the same URL are at
\* least TTL seconds apart
C8_OneRunPerWindow ==
    \A a \in CachedRuns : \A b \in CachedRuns :
        (a # b /\ a.host_channel_url = b.host_channel_url)
        => (a.at - b.at >= TTL \/ b.at - a.at >= TTL)

====
